---- MODULE Spec2Model ----
(***************************************************************************)
(* The inventory ledger (inventory-api/inventory_manager.py) and its read  *)
(* cache (inventory-api/cache_manager.py), called by concurrent request    *)
(* threads.  Every thread runs one public operation at a time; a step is   *)
(* one lock acquisition, one cache call (atomic under the cache's own      *)
(* lock) or one statement group executed while the ledger lock is held.    *)
(* Spec is the ledger under concurrent calls; CacheSpec is the cache called *)
(* directly, one whole call per step, with a clock of seconds; LockSpec is  *)
(* the ledger and the cache called concurrently under fair scheduling, a    *)
(* call waiting in a state of its own for either lock, and a direct cache   *)
(* call taking a step per statement while it holds the cache's lock.        *)
(* ReadSpec is the ledger with what its callers are given kept on record;   *)
(* PaySpec is the payment processor (payment-gateway/payment_processor.py)  *)
(* called by concurrent request threads.                                    *)
(* Records name their fields in the order TLC keeps them in, the order in   *)
(* which the names first appear in this module, so that no worker ever      *)
(* reorders a record another worker is reading.                             *)
(***************************************************************************)
EXTENDS Integers, Sequences, FiniteSets, TLC

VARIABLES
    inventory,       \* InventoryManager.inventory: item_id -> [stock, reserved]
    reservations,    \* InventoryManager.reservations: order_id -> [items, timestamp]
    adjustment_log,  \* InventoryManager.adjustment_log: list of log entries
    lock,            \* InventoryManager.lock (threading.RLock): [owner, count]
    cache,           \* CacheManager.cache: key -> value
    expiry,          \* CacheManager.expiry: key -> absolute expiry time
    hits,            \* CacheManager.hits
    misses,          \* CacheManager.misses
    written,         \* history: key -> what became of the last set of the key:
                     \* live with its value, time and ttl, or gone and how
    cache_lock,      \* CacheManager.lock: the thread inside a cache call, if any
    loaded,          \* per thread: the counter value `+= 1` has read
    gets,            \* history: the number of CacheManager.get calls completed
    now,             \* the wall clock, in seconds
    pc,              \* per thread: the statement it is at
    arg,             \* per thread: the operation called and its arguments
    idx,             \* per thread: position of the for loop over the items
    details,         \* per thread: reserve_items' local reservation_details
    result,          \* per thread: the value (or exception) being returned
    pre,             \* per thread, history: the state when it entered `with self.lock`
    calls,           \* the number of operations called so far
    last,            \* history: the reserve_items that succeeded last, while no
                     \* other operation has been called since
    seen,            \* per thread, history: the <<item_id, reserved>> its get_item
                     \* calls have returned, in order, when a run keeps them
    applied,         \* history: every item's reserved quantity at the start and
                     \* after each reservation made or released since, when kept
    processed_transactions,  \* PaymentProcessor.processed_transactions: id -> transaction
    refunded_transactions,   \* PaymentProcessor.refunded_transactions: set of ids
    refunds          \* history: id -> how often refund_transaction has answered
                     \* 'refunded' for it

vars == <<inventory, reservations, adjustment_log, lock, cache, expiry, hits,
          misses, written, cache_lock, loaded, gets, now, pc, arg, idx, details,
          result, pre, calls, last, seen, applied, processed_transactions,
          refunded_transactions, refunds>>

ledgerVars == <<inventory, reservations, adjustment_log>>
cacheVars == <<cache, expiry, hits, misses, written, cache_lock, loaded, gets>>
localVars == <<arg, idx, details, result, pre>>
observerVars == <<seen, applied>>
paymentVars == <<processed_transactions, refunded_transactions, refunds>>

\* arg, result, pre and last while there is no call, no result, no lock
\* entered and no reservation to remember
NoArg == [op |-> "none"]
NoResult == [kind |-> "none"]
NoPre == [held |-> FALSE]
NoLast == [op |-> "none"]

-----------------------------------------------------------------------------
(* Bounds of the model *)

\* the threads call at most MaxCalls operations in all
MaxCalls == 3
\* the clock stops at MaxTime, and advances by TickStep seconds at a time
MaxTime == 61
TickStep == 61
\* the cache is called directly at most MaxCacheCalls times, while the clock
\* advances second by second and stops at MaxCacheTime
MaxCacheCalls == 5
MaxCacheTime == 3
\* under LockSpec the threads call at most MaxLockCalls operations in all
MaxLockCalls == 2

-----------------------------------------------------------------------------
(* Inputs *)

Threads == {"t1", "t2"}
NoThread == "none"

\* two rows of the seeded catalog, and an id that is not in it
Items == {1008, 1009}
UnknownId == 9999
ItemIds == Items \cup {UnknownId}

Orders == {"O1", "O2"}

Pair(i, q) == [item_id |-> i, quantity |-> q]

\* the item lists handed to reserve_items
ItemLists ==
    { << >>,
      << Pair(1009, 5), Pair(1008, 2) >>,
      << Pair(1009, 1), Pair(1008, 8) >>,
      << Pair(1008, 4), Pair(1008, 3) >>,
      << Pair(1009, -1) >>,
      << Pair(1008, 1), Pair(UnknownId, 1) >> }

\* the (item_id, adjustment, reason) triples handed to adjust_inventory
Adjustment(i, d, r) == [item_id |-> i, adjustment |-> d, reason |-> r]

Adjustments ==
    { Adjustment(1008, -6, "damaged"), Adjustment(1008, 3, "restock"),
      Adjustment(1009, -5, "damaged"), Adjustment(1009, -6, "damaged"),
      Adjustment(UnknownId, 3, "restock") }

\* the (item_id, quantity) pairs handed to check_availability
Queries == { Pair(1008, 7), Pair(1008, 8), Pair(UnknownId, 1) }

\* the thresholds handed to get_low_stock_items: the default, and a lower one
Thresholds == {5, 10}

\* the thread, keys, values and ttls of the direct calls of the cache
CacheClients == {"t1"}
CacheKeys == {"key1", "key2"}
CacheValues == {"value1", "value2"}
TTLs == {1, 2}


-----------------------------------------------------------------------------
(* Python dicts as functions on the set of their keys *)

Has(d, k) == k \in DOMAIN d

DictPut(d, k, v) == [x \in (DOMAIN d) \cup {k} |-> IF x = k THEN v ELSE d[x]]

DictDel(d, k) == [x \in (DOMAIN d) \ {k} |-> d[x]]

EmptyDict == [x \in {} |-> 0]

\* reservation_details keeps the insertion order release_reservation iterates in:
\* a sequence of <<item_id, quantity>>, one per key
OrderedPut(s, k, v) ==
    IF \E i \in 1..Len(s) : s[i][1] = k
    THEN [i \in 1..Len(s) |-> IF s[i][1] = k THEN <<k, v>> ELSE s[i]]
    ELSE Append(s, <<k, v>>)

-----------------------------------------------------------------------------
(* InventoryManager.__init__ / _initialize_inventory, CacheManager.__init__ *)

\* the order in which self.inventory.items() yields the items
Catalog == <<1008, 1009>>

SeedInventory ==
    [i \in Items |-> IF i = 1008 THEN [stock |-> 8, reserved |-> 1]
                                 ELSE [stock |-> 5, reserved |-> 0]]

Init ==
    /\ inventory = SeedInventory
    /\ reservations = EmptyDict
    /\ adjustment_log = << >>
    /\ lock = [owner |-> NoThread, count |-> 0]
    /\ cache = EmptyDict
    /\ expiry = EmptyDict
    /\ hits = 0
    /\ misses = 0
    /\ written = EmptyDict
    /\ cache_lock = NoThread
    /\ loaded = [t \in Threads |-> 0]
    /\ gets = 0
    /\ now = 0
    /\ pc = [t \in Threads |-> "idle"]
    /\ arg = [t \in Threads |-> NoArg]
    /\ idx = [t \in Threads |-> 0]
    /\ details = [t \in Threads |-> << >>]
    /\ result = [t \in Threads |-> NoResult]
    /\ pre = [t \in Threads |-> NoPre]
    /\ calls = 0
    /\ last = NoLast
    /\ seen = [t \in Threads |-> << >>]
    /\ applied = << [i \in Items |-> SeedInventory[i].reserved] >>
    /\ processed_transactions = EmptyDict
    /\ refunded_transactions = {}
    /\ refunds = EmptyDict

-----------------------------------------------------------------------------
(* threading.RLock *)

\* faulty variant: a lock that never blocks
CanAcquire_always(t) == TRUE

\* faulty variant: a plain Lock, which its owner cannot enter again
CanAcquire_notReentrant(t) == lock.owner = NoThread

\* acquire() succeeds when the lock is free or already owned by the caller
CanAcquire(t) == lock.owner = NoThread \/ lock.owner = t

Acquired(t) == [owner |-> t, count |-> lock.count + 1]

Released(t) ==
    IF lock.owner # t THEN lock
    ELSE IF lock.count = 1 THEN [owner |-> NoThread, count |-> 0]
    ELSE [lock EXCEPT !.count = @ - 1]

\* history: the ledger and the cache entries as a thread finds them on
\* entering `with self.lock`
Snapshot ==
    [inventory |-> inventory, reservations |-> reservations,
     adjustment_log |-> adjustment_log, cache |-> cache, expiry |-> expiry,
     held |-> TRUE]

-----------------------------------------------------------------------------
(* CacheManager *)

Key(item_id) == item_id

\* faulty variant: the entry is expired as soon as the clock reaches its expiry
Expired_ge(key) == Has(expiry, key) /\ now >= expiry[key]

\* CacheManager.get: the entry is expired when now > expiry[key]
Expired(key) == Has(expiry, key) /\ now > expiry[key]

CacheHit(key) == Has(cache, key) /\ ~Expired(key)

\* faulty variant: the cache's lock never blocks
CacheLockFree_always == TRUE

\* `with self.lock` of a cache call can be entered: no other call is inside
\* (no cache call calls another, so the lock is never re-entered)
CacheLockFree == cache_lock = NoThread

\* a cache call taken as one step: it waits for the lock, runs and releases it
WholeCall == CacheLockFree /\ UNCHANGED <<cache_lock, loaded>>

\* history: the entry a set has written is live until it is deleted or
\* cleared, or a get finds that its ttl has run out
Gone(how) == [state |-> how]

Live(w, key) == Has(w, key) /\ w[key].state = "live"

Outlived(key) == Live(written, key) /\ now > written[key].at + written[key].ttl

\* CacheManager.get, its effect on the cache (the value is cache[key] on a hit)
CacheGet(key) ==
    /\ WholeCall
    /\ gets' = gets + 1
    /\ IF Has(cache, key)
       THEN IF Expired(key)
            THEN /\ cache' = DictDel(cache, key)
                 /\ expiry' = DictDel(expiry, key)
                 /\ misses' = misses + 1
                 /\ hits' = hits
            ELSE /\ hits' = hits + 1
                 /\ UNCHANGED <<cache, expiry, misses>>
       ELSE /\ misses' = misses + 1
            /\ UNCHANGED <<cache, expiry, hits>>
    /\ written' = IF Outlived(key) THEN DictPut(written, key, Gone("expired")) ELSE written

\* faulty variant: a key that has an entry keeps the expiry of that entry
CacheSet_keepsExpiry(key, value, ttl) ==
    /\ WholeCall
    /\ UNCHANGED gets
    /\ cache' = DictPut(cache, key, value)
    /\ expiry' = IF Has(expiry, key) THEN expiry ELSE DictPut(expiry, key, now + ttl)
    /\ UNCHANGED <<hits, misses>>
    /\ written' = DictPut(written, key,
                          [state |-> "live", at |-> now, ttl |-> ttl, value |-> value])

\* CacheManager.set
CacheSet(key, value, ttl) ==
    /\ WholeCall
    /\ UNCHANGED gets
    /\ cache' = DictPut(cache, key, value)
    /\ expiry' = DictPut(expiry, key, now + ttl)
    /\ UNCHANGED <<hits, misses>>
    /\ written' = DictPut(written, key,
                          [state |-> "live", at |-> now, ttl |-> ttl, value |-> value])

\* faulty variant: the value is deleted and its expiry is left behind
CacheDelete_keepsExpiry(key) ==
    /\ WholeCall
    /\ UNCHANGED gets
    /\ cache' = DictDel(cache, key)
    /\ UNCHANGED <<expiry, hits, misses>>
    /\ written' = IF Has(written, key) THEN DictPut(written, key, Gone("deleted"))
                   ELSE written

\* CacheManager.delete
CacheDelete(key) ==
    /\ WholeCall
    /\ UNCHANGED gets
    /\ IF Has(cache, key)
       THEN /\ cache' = DictDel(cache, key)
            /\ expiry' = IF Has(expiry, key) THEN DictDel(expiry, key) ELSE expiry
       ELSE UNCHANGED <<cache, expiry>>
    /\ UNCHANGED <<hits, misses>>
    /\ written' = IF Has(written, key) THEN DictPut(written, key, Gone("deleted"))
                   ELSE written

\* CacheManager.clear
CacheClear ==
    /\ WholeCall
    /\ UNCHANGED gets
    /\ cache' = EmptyDict
    /\ expiry' = EmptyDict
    /\ UNCHANGED <<hits, misses>>
    /\ written' = [k \in DOMAIN written |-> Gone("cleared")]

-----------------------------------------------------------------------------
(* Steps common to all operations *)

\* a thread calls get_item, whose first statement takes no lock
Call(t, a, next) ==
    /\ pc[t] = "idle"
    /\ calls < MaxCalls
    /\ calls' = calls + 1
    /\ last' = IF a.op = "release_reservation" /\ last.op = "reserve_items"
                   /\ last.order_id = a.order_id
                THEN last ELSE NoLast
    /\ UNCHANGED <<observerVars, paymentVars>>
    /\ pc' = [pc EXCEPT ![t] = next]
    /\ arg' = [arg EXCEPT ![t] = a]
    /\ UNCHANGED <<ledgerVars, lock, cacheVars, now, idx, details, result, pre>>

\* `with self.lock:` on entry, at statement `at` of a running operation
Enter(t, at, next) ==
    /\ pc[t] = at
    /\ CanAcquire(t)
    /\ lock' = Acquired(t)
    /\ pre' = [pre EXCEPT ![t] = Snapshot]
    /\ pc' = [pc EXCEPT ![t] = next]
    /\ UNCHANGED <<ledgerVars, cacheVars, now, arg, idx, details, result>>
    /\ UNCHANGED <<calls, last, observerVars, paymentVars>>

\* a thread calls an operation whose body is one `with self.lock:` block.  The
\* call blocks, without any effect, until acquire() succeeds; the step is the
\* acquisition, and `next` the first statement under the lock
CallLocked(t, a, next) ==
    /\ pc[t] = "idle"
    /\ calls < MaxCalls
    /\ calls' = calls + 1
    /\ last' = IF a.op = "release_reservation" /\ last.op = "reserve_items"
                   /\ last.order_id = a.order_id
                THEN last ELSE NoLast
    /\ UNCHANGED <<observerVars, paymentVars>>
    /\ CanAcquire(t)
    /\ lock' = Acquired(t)
    /\ pre' = [pre EXCEPT ![t] = Snapshot]
    /\ pc' = [pc EXCEPT ![t] = next]
    /\ arg' = [arg EXCEPT ![t] = a]
    /\ UNCHANGED <<ledgerVars, cacheVars, now, idx, details, result>>

\* the operation returns (or its exception propagates): the with block, if
\* entered, releases the lock, and the thread is free for its next call
Leave(t) ==
    /\ pc[t] = "return"
    /\ lock' = Released(t)
    /\ pc' = [pc EXCEPT ![t] = "idle"]
    /\ arg' = [arg EXCEPT ![t] = NoArg]
    /\ idx' = [idx EXCEPT ![t] = 0]
    /\ details' = [details EXCEPT ![t] = << >>]
    /\ result' = [result EXCEPT ![t] = NoResult]
    /\ pre' = [pre EXCEPT ![t] = NoPre]
    /\ UNCHANGED <<ledgerVars, cacheVars, now>>
    /\ UNCHANGED <<calls, last, paymentVars>>

\* the return, in a run that keeps no record of what its callers were given
Return(t) == Leave(t) /\ UNCHANGED observerVars

Tick ==
    /\ now + TickStep <= MaxTime
    /\ now' = now + TickStep
    /\ UNCHANGED <<ledgerVars, lock, cacheVars, pc, localVars>>
    /\ UNCHANGED <<calls, last, observerVars, paymentVars>>

-----------------------------------------------------------------------------
(* InventoryManager.get_item *)

ItemTTL == 60

CallGetItem(t) ==
    /\ \E i \in ItemIds : Call(t, [op |-> "get_item", item_id |-> i], "gi_cache_get")

\* cached = self.cache.get(...); if cached: return cached
GetItemCacheGet(t) ==
    /\ pc[t] = "gi_cache_get"
    /\ CacheGet(Key(arg[t].item_id))
    /\ IF CacheHit(Key(arg[t].item_id))
       THEN /\ result' = [result EXCEPT ![t] =
                            [kind |-> "item", item |-> cache[Key(arg[t].item_id)], cached |-> TRUE]]
            /\ pc' = [pc EXCEPT ![t] = "return"]
       ELSE /\ pc' = [pc EXCEPT ![t] = "gi_lock"]
            /\ UNCHANGED result
    /\ UNCHANGED <<ledgerVars, lock, now, arg, idx, details, pre>>
    /\ UNCHANGED <<calls, last, observerVars, paymentVars>>

\* faulty variant: the item is read without taking the ledger lock
GetItemEnter_unlocked(t) ==
    /\ pc[t] = "gi_lock"
    /\ pre' = [pre EXCEPT ![t] = Snapshot]
    /\ pc' = [pc EXCEPT ![t] = "gi_read"]
    /\ UNCHANGED <<ledgerVars, lock, cacheVars, now, arg, idx, details, result, calls, last, observerVars, paymentVars>>

GetItemEnter(t) == Enter(t, "gi_lock", "gi_read")

\* the copy of the item with `available` and `last_checked`
ItemView(i) ==
    [item_id |-> i, stock |-> inventory[i].stock, reserved |-> inventory[i].reserved,
     available |-> inventory[i].stock - inventory[i].reserved, last_checked |-> now]

\* faulty variant: the answer for an unknown id is written to the cache too
GetItemRead_cachesAbsence(t) ==
    /\ pc[t] = "gi_read"
    /\ IF arg[t].item_id \notin DOMAIN inventory
       THEN result' = [result EXCEPT ![t] =
                         [kind |-> "item_not_found", item_id |-> arg[t].item_id,
                          item |-> [item_id |-> arg[t].item_id, error |-> "not found"]]]
       ELSE result' = [result EXCEPT ![t] =
                         [kind |-> "item", item |-> ItemView(arg[t].item_id), cached |-> FALSE]]
    /\ pc' = [pc EXCEPT ![t] = "gi_cache_set"]
    /\ UNCHANGED <<ledgerVars, lock, cacheVars, now, arg, idx, details, pre, calls, last, observerVars, paymentVars>>

\* faulty variant: `available` and `last_checked` are written into the ledger's
\* own row of the item, not into a copy of it
GetItemRead_noCopy(t) ==
    /\ pc[t] = "gi_read"
    /\ IF arg[t].item_id \notin DOMAIN inventory
       THEN /\ result' = [result EXCEPT ![t] = [kind |-> "item_not_found", item_id |-> arg[t].item_id]]
            /\ pc' = [pc EXCEPT ![t] = "return"]
            /\ UNCHANGED inventory
       ELSE /\ result' = [result EXCEPT ![t] =
                            [kind |-> "item", item |-> ItemView(arg[t].item_id), cached |-> FALSE]]
            /\ pc' = [pc EXCEPT ![t] = "gi_cache_set"]
            /\ inventory' =
                  [inventory EXCEPT ![arg[t].item_id] =
                      [f \in DOMAIN @ \cup {"available", "last_checked"} |->
                          IF f = "available" THEN @.stock - @.reserved
                          ELSE IF f = "last_checked" THEN now
                          ELSE @[f]]]
    /\ UNCHANGED <<reservations, adjustment_log, lock, cacheVars, now, arg, idx, details, pre>>
    /\ UNCHANGED <<calls, last, observerVars, paymentVars>>

\* under the lock: unknown id -> error; else build the item to return
GetItemRead(t) ==
    /\ pc[t] = "gi_read"
    /\ IF arg[t].item_id \notin DOMAIN inventory
       THEN /\ result' = [result EXCEPT ![t] = [kind |-> "item_not_found", item_id |-> arg[t].item_id]]
            /\ pc' = [pc EXCEPT ![t] = "return"]
       ELSE /\ result' = [result EXCEPT ![t] =
                            [kind |-> "item", item |-> ItemView(arg[t].item_id), cached |-> FALSE]]
            /\ pc' = [pc EXCEPT ![t] = "gi_cache_set"]
    /\ UNCHANGED <<ledgerVars, lock, cacheVars, now, arg, idx, details, pre>>
    /\ UNCHANGED <<calls, last, observerVars, paymentVars>>

\* faulty variant: the item is returned without being written to the cache
GetItemCacheSet_skipped(t) ==
    /\ pc[t] = "gi_cache_set"
    /\ pc' = [pc EXCEPT ![t] = "return"]
    /\ UNCHANGED <<ledgerVars, lock, cacheVars, now, localVars, calls, last, observerVars, paymentVars>>

\* self.cache.set(f'item:{item_id}', item, ttl=60); return item
GetItemCacheSet(t) ==
    /\ pc[t] = "gi_cache_set"
    /\ CacheSet(Key(arg[t].item_id), result[t].item, ItemTTL)
    /\ pc' = [pc EXCEPT ![t] = "return"]
    /\ UNCHANGED <<ledgerVars, lock, now, localVars>>
    /\ UNCHANGED <<calls, last, observerVars, paymentVars>>

-----------------------------------------------------------------------------
(* InventoryManager.check_availability *)

\* the value check_availability computes from the live ledger
Available(i) == inventory[i].stock - inventory[i].reserved

\* faulty variant: the requested quantity must be less than what is available
IsAvailable_strict(i, q) == IF i \notin DOMAIN inventory THEN FALSE ELSE Available(i) > q

IsAvailable(i, q) == IF i \notin DOMAIN inventory THEN FALSE ELSE Available(i) >= q

CallCheckAvailability(t) ==
    \E q \in Queries :
        CallLocked(t, [op |-> "check_availability", item_id |-> q.item_id,
                       quantity |-> q.quantity], "ca_body")

CheckAvailabilityBody(t) ==
    /\ pc[t] = "ca_body"
    /\ result' = [result EXCEPT ![t] =
                    [kind |-> "bool", value |-> IsAvailable(arg[t].item_id, arg[t].quantity)]]
    /\ pc' = [pc EXCEPT ![t] = "return"]
    /\ UNCHANGED <<ledgerVars, lock, cacheVars, now, arg, idx, details, pre>>
    /\ UNCHANGED <<calls, last, observerVars, paymentVars>>

-----------------------------------------------------------------------------
(* InventoryManager.adjust_inventory *)

CallAdjust(t) ==
    /\ \E a \in Adjustments :
          CallLocked(t, [op |-> "adjust_inventory", item_id |-> a.item_id,
                         adjustment |-> a.adjustment, reason |-> a.reason], "adj_body")

\* faulty variant: old_stock is read from the item after the new stock is stored
LogEntry_afterCommit(i, old, new, d, r) ==
    [item_id |-> i, adjustment |-> d, reason |-> r, old_stock |-> new,
     new_stock |-> new, timestamp |-> now]

\* lines 188-195: the audit entry of an adjustment
LogEntry(i, old, new, d, r) ==
    [item_id |-> i, adjustment |-> d, reason |-> r, old_stock |-> old,
     new_stock |-> new, timestamp |-> now]

\* faulty variant: the validation of the new stock is missing
AdjustRejected_unchecked(new_stock) == FALSE

\* faulty variant: the entry is built and dropped
LogAppend_skipped(log, entry) == log

\* faulty variant: the log keeps the newest entry only
LogAppend_replaced(log, entry) == <<entry>>

\* lines 188-196: self.adjustment_log.append(log_entry)
LogAppend(log, entry) == Append(log, entry)

\* faulty variant: the guard lets a new stock of -1 through
AdjustRejected_offByOne(new_stock) == new_stock < -1

\* faulty variant: an adjustment down to exactly zero is rejected too
AdjustRejected_le(new_stock) == new_stock <= 0

\* the guard of the rejection: `if new_stock < 0`
AdjustRejected(new_stock) == new_stock < 0

\* lines 171-196: validate, commit the new stock, append the log entry
AdjustBody(t) ==
    /\ pc[t] = "adj_body"
    /\ LET i == arg[t].item_id
           d == arg[t].adjustment
       IN IF i \notin DOMAIN inventory
          THEN /\ result' = [result EXCEPT ![t] = [kind |-> "item_not_found", item_id |-> i]]
               /\ pc' = [pc EXCEPT ![t] = "return"]
               /\ UNCHANGED ledgerVars
          ELSE LET old_stock == inventory[i].stock
                   new_stock == old_stock + d
               IN IF AdjustRejected(new_stock)
                  THEN /\ result' = [result EXCEPT ![t] =
                                       [kind |-> "negative_stock", item_id |-> i,
                                        adjustment |-> d, current_stock |-> old_stock]]
                       /\ pc' = [pc EXCEPT ![t] = "return"]
                       /\ UNCHANGED ledgerVars
                  ELSE /\ inventory' = [inventory EXCEPT ![i].stock = new_stock]
                       /\ adjustment_log' =
                             LogAppend(adjustment_log,
                                       LogEntry(i, old_stock, new_stock, d, arg[t].reason))
                       /\ result' = [result EXCEPT ![t] =
                                       [kind |-> "adjusted", item_id |-> i, adjustment |-> d,
                                        reason |-> arg[t].reason, old_stock |-> old_stock,
                                        new_stock |-> new_stock]]
                       /\ pc' = [pc EXCEPT ![t] = "adj_invalidate"]
                       /\ UNCHANGED reservations
    /\ UNCHANGED <<lock, cacheVars, now, arg, idx, details, pre>>
    /\ UNCHANGED <<calls, last, observerVars, paymentVars>>

\* faulty variant: adjust_inventory forgets to invalidate the cache entry
AdjustInvalidate_forgotten(t) ==
    /\ pc[t] = "adj_invalidate"
    /\ pc' = [pc EXCEPT ![t] = "return"]
    /\ UNCHANGED <<ledgerVars, lock, cacheVars, now, localVars, calls, last, observerVars, paymentVars>>

\* self.cache.delete(f'item:{item_id}'); return {...}
AdjustInvalidate(t) ==
    /\ pc[t] = "adj_invalidate"
    /\ CacheDelete(Key(arg[t].item_id))
    /\ pc' = [pc EXCEPT ![t] = "return"]
    /\ UNCHANGED <<ledgerVars, lock, now, localVars>>
    /\ UNCHANGED <<calls, last, observerVars, paymentVars>>

-----------------------------------------------------------------------------
(* InventoryManager.reserve_items *)

CallReserve(t) ==
    \E o \in Orders, l \in ItemLists :
        CallLocked(t, [op |-> "reserve_items", order_id |-> o, items |-> l], "res_duplicate")

\* faulty variant: the check for an existing reservation is missing
IsDuplicate_never(order_id) == FALSE

\* faulty variant: `if self.reservations.get(order_id)`, which an empty
\* reservation does not satisfy
IsDuplicate_truthy(order_id) ==
    Has(reservations, order_id) /\ reservations[order_id].items # << >>

\* `if order_id in self.reservations`
IsDuplicate(order_id) == Has(reservations, order_id)

\* lines 86-91: an order that already has a reservation is refused
ReserveDuplicate(t) ==
    /\ pc[t] = "res_duplicate"
    /\ IF IsDuplicate(arg[t].order_id)
       THEN /\ result' = [result EXCEPT ![t] =
                            [kind |-> "duplicate", order_id |-> arg[t].order_id]]
            /\ pc' = [pc EXCEPT ![t] = "return"]
            /\ UNCHANGED idx
       ELSE /\ pc' = [pc EXCEPT ![t] = "res_validate"]
            /\ idx' = [idx EXCEPT ![t] = 1]
            /\ UNCHANGED result
    /\ UNCHANGED <<ledgerVars, lock, cacheVars, now, arg, details, pre>>
    /\ UNCHANGED <<calls, last, observerVars, paymentVars>>

\* faulty variant: the failure reports the item's stock as its available quantity
InsufficientResult_stock(i, q) ==
    IF i \in DOMAIN inventory
    THEN [kind |-> "insufficient", item_id |-> i, available |-> inventory[i].stock,
          requested |-> q]
    ELSE [kind |-> "KeyError", key |-> i]

\* lines 99-105, the failure result: it reads self.inventory[item_id], which
\* raises KeyError for an id that is not in the catalog
InsufficientResult(i, q) ==
    IF i \in DOMAIN inventory
    THEN [kind |-> "insufficient", item_id |-> i,
          available |-> inventory[i].stock - inventory[i].reserved, requested |-> q]
    ELSE [kind |-> "KeyError", key |-> i]

\* faulty variant: one loop that reserves each pair as soon as it has passed its check
ReserveValidate_eager(t) ==
    /\ pc[t] = "res_validate"
    /\ LET items == arg[t].items
       IN IF idx[t] > Len(items)
          THEN /\ pc' = [pc EXCEPT ![t] = "res_reserve"]
               /\ idx' = [idx EXCEPT ![t] = Len(items) + 1]
               /\ UNCHANGED <<result, inventory, details>>
          ELSE LET i == items[idx[t]].item_id
                   q == items[idx[t]].quantity
               IN /\ CanAcquire(t)
                  /\ IF IsAvailable(i, q)
                     THEN /\ idx' = [idx EXCEPT ![t] = @ + 1]
                          /\ inventory' = [inventory EXCEPT ![i].reserved = @ + q]
                          /\ details' = [details EXCEPT ![t] = OrderedPut(@, i, q)]
                          /\ UNCHANGED <<pc, result>>
                     ELSE /\ result' = [result EXCEPT ![t] = InsufficientResult(i, q)]
                          /\ pc' = [pc EXCEPT ![t] = "return"]
                          /\ UNCHANGED <<idx, inventory, details>>
    /\ UNCHANGED <<reservations, adjustment_log, lock, cacheVars, now, arg, pre, calls, last, observerVars, paymentVars>>

\* lines 94-105, one turn of the first loop: check_availability re-enters the
\* lock the thread holds; a pair that fails ends the call, and building the
\* failure result reads self.inventory[item_id], a KeyError for an unknown id
ReserveValidate(t) ==
    /\ pc[t] = "res_validate"
    /\ LET items == arg[t].items
       IN IF idx[t] > Len(items)
          THEN /\ pc' = [pc EXCEPT ![t] = "res_reserve"]
               /\ idx' = [idx EXCEPT ![t] = 1]
               /\ UNCHANGED result
          ELSE LET i == items[idx[t]].item_id
                   q == items[idx[t]].quantity
               IN /\ CanAcquire(t)
                  /\ IF IsAvailable(i, q)
                     THEN /\ idx' = [idx EXCEPT ![t] = @ + 1]
                          /\ UNCHANGED <<pc, result>>
                     ELSE /\ result' = [result EXCEPT ![t] = InsufficientResult(i, q)]
                          /\ pc' = [pc EXCEPT ![t] = "return"]
                          /\ UNCHANGED idx
    /\ UNCHANGED <<ledgerVars, lock, cacheVars, now, arg, details, pre>>
    /\ UNCHANGED <<calls, last, observerVars, paymentVars>>

\* lines 109-114, one turn of the second loop, up to the cache call; after the
\* last turn, lines 121-131 record the reservation and build the result
ReserveItem(t) ==
    /\ pc[t] = "res_reserve"
    /\ LET items == arg[t].items
       IN IF idx[t] > Len(items)
          THEN /\ reservations' = DictPut(reservations, arg[t].order_id,
                                          [timestamp |-> now, items |-> details[t]])
               /\ result' = [result EXCEPT ![t] =
                               [kind |-> "reserved", order_id |-> arg[t].order_id,
                                items_reserved |-> Len(details[t]),
                                reservation_details |-> details[t]]]
               /\ pc' = [pc EXCEPT ![t] = "return"]
               /\ last' = [op |-> "reserve_items",
                           reserved |-> [i \in Items |-> pre[t].inventory[i].reserved],
                           order_id |-> arg[t].order_id]
               /\ UNCHANGED <<inventory, details>>
          ELSE LET i == items[idx[t]].item_id
                   q == items[idx[t]].quantity
               IN /\ inventory' = [inventory EXCEPT ![i].reserved = @ + q]
                  /\ details' = [details EXCEPT ![t] = OrderedPut(@, i, q)]
                  /\ pc' = [pc EXCEPT ![t] = "res_invalidate"]
                  /\ UNCHANGED <<reservations, result, last>>
    /\ UNCHANGED <<adjustment_log, lock, cacheVars, now, arg, idx, pre, calls, observerVars, paymentVars>>

\* faulty variant: the second loop leaves the item's cache entry in place
ReserveInvalidate_forgotten(t) ==
    /\ pc[t] = "res_invalidate"
    /\ idx' = [idx EXCEPT ![t] = @ + 1]
    /\ pc' = [pc EXCEPT ![t] = "res_reserve"]
    /\ UNCHANGED <<ledgerVars, lock, cacheVars, now, arg, details, result, pre>>
    /\ UNCHANGED <<calls, last, observerVars, paymentVars>>

\* line 117: self.cache.delete(f'item:{item_id}'), then the next turn
ReserveInvalidate(t) ==
    /\ pc[t] = "res_invalidate"
    /\ CacheDelete(Key(arg[t].items[idx[t]].item_id))
    /\ idx' = [idx EXCEPT ![t] = @ + 1]
    /\ pc' = [pc EXCEPT ![t] = "res_reserve"]
    /\ UNCHANGED <<ledgerVars, lock, now, arg, details, result, pre>>
    /\ UNCHANGED <<calls, last, observerVars, paymentVars>>

-----------------------------------------------------------------------------
(* InventoryManager.release_reservation *)

CallRelease(t) ==
    \E o \in Orders : CallLocked(t, [op |-> "release_reservation", order_id |-> o], "rel_find")

\* faulty variant: a missing reservation is released as an empty one
ReleaseFind_lenient(t) ==
    /\ pc[t] = "rel_find"
    /\ details' = [details EXCEPT ![t] =
                      IF Has(reservations, arg[t].order_id)
                      THEN reservations[arg[t].order_id].items ELSE << >>]
    /\ idx' = [idx EXCEPT ![t] = 1]
    /\ pc' = [pc EXCEPT ![t] = "rel_release"]
    /\ UNCHANGED <<ledgerVars, lock, cacheVars, now, arg, result, pre, calls, last, observerVars, paymentVars>>

\* lines 136-143: no reservation -> not_found; else take the reservation
ReleaseFind(t) ==
    /\ pc[t] = "rel_find"
    /\ IF ~Has(reservations, arg[t].order_id)
       THEN /\ result' = [result EXCEPT ![t] =
                            [kind |-> "reservation_not_found", order_id |-> arg[t].order_id]]
            /\ pc' = [pc EXCEPT ![t] = "return"]
            /\ UNCHANGED <<idx, details>>
       ELSE /\ details' = [details EXCEPT ![t] = reservations[arg[t].order_id].items]
            /\ idx' = [idx EXCEPT ![t] = 1]
            /\ pc' = [pc EXCEPT ![t] = "rel_release"]
            /\ UNCHANGED result
    /\ UNCHANGED <<ledgerVars, lock, cacheVars, now, arg, pre>>
    /\ UNCHANGED <<calls, last, observerVars, paymentVars>>

\* faulty variant: the reservation record survives the release
ReleaseItem_keepsRecord(t) ==
    /\ pc[t] = "rel_release"
    /\ IF idx[t] > Len(details[t])
       THEN /\ result' = [result EXCEPT ![t] =
                            [kind |-> "released", order_id |-> arg[t].order_id,
                             items_released |-> Len(details[t])]]
            /\ pc' = [pc EXCEPT ![t] = "return"]
            /\ UNCHANGED <<inventory, reservations>>
       ELSE /\ inventory' = [inventory EXCEPT ![details[t][idx[t]][1]].reserved =
                                                  @ - details[t][idx[t]][2]]
            /\ pc' = [pc EXCEPT ![t] = "rel_invalidate"]
            /\ UNCHANGED <<reservations, result>>
    /\ UNCHANGED <<adjustment_log, lock, cacheVars, now, arg, idx, details, pre>>
    /\ UNCHANGED <<calls, last, observerVars, paymentVars>>

\* faulty variant: the released quantity is put back on the item's stock too
ReleaseItem_restocks(t) ==
    /\ pc[t] = "rel_release"
    /\ IF idx[t] > Len(details[t])
       THEN /\ reservations' = DictDel(reservations, arg[t].order_id)
            /\ result' = [result EXCEPT ![t] =
                            [kind |-> "released", order_id |-> arg[t].order_id,
                             items_released |-> Len(details[t])]]
            /\ pc' = [pc EXCEPT ![t] = "return"]
            /\ UNCHANGED inventory
       ELSE /\ inventory' = [inventory EXCEPT ![details[t][idx[t]][1]] =
                                [stock |-> @.stock + details[t][idx[t]][2],
                                 reserved |-> @.reserved - details[t][idx[t]][2]]]
            /\ pc' = [pc EXCEPT ![t] = "rel_invalidate"]
            /\ UNCHANGED <<reservations, result>>
    /\ UNCHANGED <<adjustment_log, lock, cacheVars, now, arg, idx, details, pre>>
    /\ UNCHANGED <<calls, last, observerVars, paymentVars>>

\* lines 145-146, one turn of the loop, up to the cache call; after the last
\* turn, lines 153-159 delete the reservation and build the result
ReleaseItem(t) ==
    /\ pc[t] = "rel_release"
    /\ IF idx[t] > Len(details[t])
       THEN /\ reservations' = DictDel(reservations, arg[t].order_id)
            /\ result' = [result EXCEPT ![t] =
                            [kind |-> "released", order_id |-> arg[t].order_id,
                             items_released |-> Len(details[t])]]
            /\ pc' = [pc EXCEPT ![t] = "return"]
            /\ UNCHANGED inventory
       ELSE /\ inventory' = [inventory EXCEPT ![details[t][idx[t]][1]].reserved =
                                                  @ - details[t][idx[t]][2]]
            /\ pc' = [pc EXCEPT ![t] = "rel_invalidate"]
            /\ UNCHANGED <<reservations, result>>
    /\ UNCHANGED <<adjustment_log, lock, cacheVars, now, arg, idx, details, pre>>
    /\ UNCHANGED <<calls, last, observerVars, paymentVars>>

\* faulty variant: release_reservation leaves the cache entries alone
ReleaseInvalidate_skipped(t) ==
    /\ pc[t] = "rel_invalidate"
    /\ idx' = [idx EXCEPT ![t] = @ + 1]
    /\ pc' = [pc EXCEPT ![t] = "rel_release"]
    /\ UNCHANGED <<ledgerVars, lock, cacheVars, now, arg, details, result, pre, calls, last, observerVars, paymentVars>>

\* line 149: self.cache.delete(f'item:{item_id}'), then the next turn
ReleaseInvalidate(t) ==
    /\ pc[t] = "rel_invalidate"
    /\ CacheDelete(Key(details[t][idx[t]][1]))
    /\ idx' = [idx EXCEPT ![t] = @ + 1]
    /\ pc' = [pc EXCEPT ![t] = "rel_release"]
    /\ UNCHANGED <<ledgerVars, lock, now, arg, details, result, pre>>
    /\ UNCHANGED <<calls, last, observerVars, paymentVars>>

-----------------------------------------------------------------------------
(* InventoryManager.get_low_stock_items *)

CallLowStock(t) ==
    \E th \in Thresholds :
        CallLocked(t, [op |-> "get_low_stock_items", threshold |-> th], "ls_body")

\* `if available <= threshold`
IsLowStock(available, threshold) == available <= threshold

\* the entry appended for an item (name and sku, which never change, left out)
LowStockEntry(i) ==
    [item_id |-> i, stock |-> inventory[i].stock, reserved |-> inventory[i].reserved,
     available |-> inventory[i].stock - inventory[i].reserved]

RECURSIVE LowStockList(_, _)
\* the for loop over the first n items of the catalog
LowStockList(n, threshold) ==
    IF n = 0 THEN << >>
    ELSE LET i == Catalog[n]
             rest == LowStockList(n - 1, threshold)
         IN IF IsLowStock(inventory[i].stock - inventory[i].reserved, threshold)
            THEN Append(rest, LowStockEntry(i))
            ELSE rest

\* x put behind the entries of the sorted list s that do not come after it
InsertByAvailable(s, x) ==
    LET n == Cardinality({k \in 1..Len(s) : s[k].available <= x.available})
    IN SubSeq(s, 1, n) \o <<x>> \o SubSeq(s, n + 1, Len(s))

\* faulty variant: the list is returned in catalog order
SortedByAvailable_unsorted(s) == s

RECURSIVE SortedByAvailable(_)
\* sorted(low_stock, key=lambda x: x['available']), a stable sort
SortedByAvailable(s) ==
    IF s = << >> THEN << >>
    ELSE InsertByAvailable(SortedByAvailable(SubSeq(s, 1, Len(s) - 1)), s[Len(s)])

LowStockBody(t) ==
    /\ pc[t] = "ls_body"
    /\ result' = [result EXCEPT ![t] =
                    [kind |-> "list",
                     items |-> SortedByAvailable(LowStockList(Len(Catalog), arg[t].threshold))]]
    /\ pc' = [pc EXCEPT ![t] = "return"]
    /\ UNCHANGED <<ledgerVars, lock, cacheVars, now, arg, idx, details, pre>>
    /\ UNCHANGED <<calls, last, observerVars, paymentVars>>

-----------------------------------------------------------------------------

Next ==
    \/ Tick
    \/ \E t \in Threads :
          \/ CallGetItem(t) \/ GetItemCacheGet(t) \/ GetItemEnter(t)
          \/ GetItemRead(t) \/ GetItemCacheSet(t)
          \/ CallCheckAvailability(t) \/ CheckAvailabilityBody(t)
          \/ CallReserve(t) \/ ReserveDuplicate(t) \/ ReserveValidate(t)
          \/ ReserveItem(t) \/ ReserveInvalidate(t)
          \/ CallRelease(t) \/ ReleaseFind(t) \/ ReleaseItem(t) \/ ReleaseInvalidate(t)
          \/ CallAdjust(t) \/ AdjustBody(t) \/ AdjustInvalidate(t)
          \/ CallLowStock(t) \/ LowStockBody(t)
          \/ Return(t)

Spec == Init /\ [][Next]_vars

-----------------------------------------------------------------------------
(* The cache called directly, as the health route and the tests call it; each *)
(* call is atomic under the cache's lock, so a step is a whole call: arg is   *)
(* the call, result what it returned, pre the cache as the call found it      *)

Absent == [kind |-> "absent"]
Value(v) == [kind |-> "value", value |-> v]

\* history: the cache and the clock as a direct call finds them
CacheSnapshot ==
    [cache |-> cache, expiry |-> expiry, hits |-> hits, misses |-> misses,
     written |-> written, now |-> now, held |-> FALSE]

\* a direct call by thread t, returning r
CacheCall(t, a, r) ==
    /\ pc[t] = "idle"
    /\ calls < MaxCacheCalls
    /\ calls' = calls + 1
    /\ arg' = [arg EXCEPT ![t] = a]
    /\ result' = [result EXCEPT ![t] = r]
    /\ pre' = [pre EXCEPT ![t] = CacheSnapshot]
    /\ UNCHANGED <<ledgerVars, lock, now, pc, idx, details, last, observerVars, paymentVars>>

CacheOpGet(t) ==
    \E k \in CacheKeys :
        /\ CacheGet(k)
        /\ CacheCall(t, [op |-> "cache.get", key |-> k],
                     IF CacheHit(k) THEN Value(cache[k]) ELSE Absent)

CacheOpSet(t) ==
    \E k \in CacheKeys, v \in CacheValues, ttl \in TTLs :
        /\ CacheSet(k, v, ttl)
        /\ CacheCall(t, [op |-> "cache.set", key |-> k, ttl |-> ttl, value |-> v], NoResult)

CacheOpDelete(t) ==
    \E k \in CacheKeys :
        /\ CacheDelete(k)
        /\ CacheCall(t, [op |-> "cache.delete", key |-> k], NoResult)

CacheOpClear(t) ==
    /\ CacheClear
    /\ CacheCall(t, [op |-> "cache.clear"], NoResult)

\* n / d rounded to the nearest integer, a half to the even one, as round() does
RoundDiv(n, d) ==
    LET q == n \div d
        r == n % d
    IN IF 2 * r < d THEN q
       ELSE IF 2 * r > d THEN q + 1
       ELSE IF q % 2 = 0 THEN q ELSE q + 1

\* faulty variant: the percentage is cut to two decimals instead of rounded
HitRate_truncated(h, m) == IF h + m > 0 THEN (h * 10000) \div (h + m) ELSE 0

\* round(hits / total_requests * 100, 2), or 0 before the first get: a
\* percentage with two decimals, counted here in hundredths of a percent
HitRate(h, m) == IF h + m > 0 THEN RoundDiv(h * 10000, h + m) ELSE 0

\* CacheManager.get_status
GetStatus ==
    [hits |-> hits, misses |-> misses, kind |-> "status",
     entries |-> Cardinality(DOMAIN cache), hit_rate |-> HitRate(hits, misses)]

CacheOpStatus(t) ==
    /\ UNCHANGED cacheVars
    /\ CacheCall(t, [op |-> "cache.get_status"], GetStatus)

\* faulty variant: a sweep runs with the clock and drops what has expired
CacheTick_sweeping ==
    /\ now < MaxCacheTime
    /\ now' = now + 1
    /\ cache' = [k \in {j \in DOMAIN cache : ~(Has(expiry, j) /\ now' > expiry[j])} |-> cache[k]]
    /\ expiry' = [k \in {j \in DOMAIN expiry : ~(now' > expiry[j])} |-> expiry[k]]
    /\ UNCHANGED <<ledgerVars, lock, hits, misses, written, cache_lock, loaded, gets,
                   pc, localVars, calls, last, observerVars, paymentVars>>

\* the clock of the cache's callers: time passes and nothing runs
CacheTick ==
    /\ now < MaxCacheTime
    /\ now' = now + 1
    /\ UNCHANGED <<ledgerVars, lock, cacheVars, pc, localVars, calls, last, observerVars, paymentVars>>

CacheNext ==
    \/ CacheTick
    \/ \E t \in CacheClients :
          \/ CacheOpGet(t) \/ CacheOpSet(t) \/ CacheOpDelete(t)
          \/ CacheOpClear(t) \/ CacheOpStatus(t)

CacheSpec == Init /\ [][CacheNext]_vars

-----------------------------------------------------------------------------
(* The ledger and the cache called concurrently, every wait for a lock a     *)
(* state of its own.  A ledger call waits at "lock_wait" (get_item at        *)
(* "gi_lock") for the ledger lock; a ledger call's cache call waits, at the  *)
(* statement that makes it, for the cache lock; a direct cache call waits at *)
(* "c_wait" and then runs statement by statement inside the cache lock       *)

\* the ledger calls of LockSpec: one of each operation
LedgerCalls ==
    { [op |-> "get_item", item_id |-> 1008],
      [op |-> "check_availability", item_id |-> 1008, quantity |-> 7],
      [op |-> "reserve_items", order_id |-> "O1",
       items |-> << Pair(1009, 5), Pair(1008, 2) >>],
      [op |-> "release_reservation", order_id |-> "O1"],
      [op |-> "adjust_inventory", item_id |-> 1008, adjustment |-> 3,
       reason |-> "restock"],
      [op |-> "get_low_stock_items", threshold |-> 10] }

\* the direct cache calls of LockSpec, on the key get_item uses for item 1008
DirectCalls ==
    { [op |-> "cache.get", key |-> Key(1008)],
      [op |-> "cache.set", key |-> Key(1008), ttl |-> ItemTTL,
       value |-> SeedInventory[1008]],
      [op |-> "cache.delete", key |-> Key(1008)],
      [op |-> "cache.clear"],
      [op |-> "cache.get_status"] }

\* the first statement of a ledger operation inside `with self.lock`
FirstLocked(op) ==
    CASE op = "check_availability" -> "ca_body"
      [] op = "reserve_items" -> "res_duplicate"
      [] op = "release_reservation" -> "rel_find"
      [] op = "adjust_inventory" -> "adj_body"
      [] op = "get_low_stock_items" -> "ls_body"

\* the first statement of a cache operation inside `with self.lock`
FirstCached(op) ==
    CASE op = "cache.get" -> "c_get_test"
      [] op = "cache.set" -> "c_set_value"
      [] op = "cache.delete" -> "c_delete"
      [] op = "cache.clear" -> "c_clear"
      [] op = "cache.get_status" -> "c_status"

\* a thread calls a ledger operation and reaches its first statement:
\* get_item's cache lookup, or `with self.lock`
LedgerInvoke(t) ==
    /\ calls < MaxLockCalls
    /\ \E a \in LedgerCalls :
          Call(t, a, IF a.op = "get_item" THEN "gi_cache_get" ELSE "lock_wait")

\* `with self.lock:` of the ledger is entered
LedgerAcquire(t) ==
    /\ pc[t] = "lock_wait"
    /\ Enter(t, "lock_wait", FirstLocked(arg[t].op))

\* a thread calls a cache operation and reaches its `with self.lock`
CacheInvoke(t) ==
    /\ calls < MaxLockCalls
    /\ \E a \in DirectCalls : Call(t, a, "c_wait")

\* a step of a direct cache call of thread t, from statement `at` to `next`,
\* that leaves everything but the cache and the thread's position alone
CacheStep(t, at, next) ==
    /\ pc[t] = at
    /\ pc' = [pc EXCEPT ![t] = next]
    /\ UNCHANGED <<ledgerVars, lock, now, arg, idx, details, calls, last, observerVars, paymentVars>>

\* `with self.lock:` of the cache is entered
CacheAcquire(t) ==
    /\ CacheStep(t, "c_wait", FirstCached(arg[t].op))
    /\ CacheLockFree
    /\ cache_lock' = t
    /\ pre' = [pre EXCEPT ![t] = CacheSnapshot]
    /\ UNCHANGED <<cache, expiry, hits, misses, written, loaded, gets, result>>

\* get, lines 29-30: `if key in self.cache`, `if datetime.now() > self.expiry[key]`
CacheGetTest(t) ==
    /\ CacheStep(t, "c_get_test",
                 IF Has(cache, arg[t].key)
                 THEN IF Expired(arg[t].key) THEN "c_get_evict" ELSE "c_get_hit"
                 ELSE "c_get_miss")
    /\ UNCHANGED <<cacheVars, result, pre>>

\* get, lines 32-33: del self.cache[key]; del self.expiry[key]
CacheGetEvict(t) ==
    /\ CacheStep(t, "c_get_evict", "c_get_miss")
    /\ cache' = DictDel(cache, arg[t].key)
    /\ expiry' = DictDel(expiry, arg[t].key)
    /\ written' = IF Outlived(arg[t].key)
                   THEN DictPut(written, arg[t].key, Gone("expired")) ELSE written
    /\ UNCHANGED <<hits, misses, cache_lock, loaded, gets, result, pre>>

\* get, lines 34 and 41, `self.misses += 1`: the counter is read
CacheGetMiss(t) ==
    /\ CacheStep(t, "c_get_miss", "c_get_miss_store")
    /\ loaded' = [loaded EXCEPT ![t] = misses]
    /\ UNCHANGED <<cache, expiry, hits, misses, written, cache_lock, gets, result, pre>>

\* get, lines 34-35 and 41-42: the counter is written; return None
CacheGetMissStore(t) ==
    /\ CacheStep(t, "c_get_miss_store", "c_unlock")
    /\ misses' = loaded[t] + 1
    /\ result' = [result EXCEPT ![t] = Absent]
    /\ UNCHANGED <<cache, expiry, hits, written, cache_lock, loaded, gets, pre>>

\* get, line 37, `self.hits += 1`: the counter is read
CacheGetHit(t) ==
    /\ CacheStep(t, "c_get_hit", "c_get_hit_store")
    /\ loaded' = [loaded EXCEPT ![t] = hits]
    /\ UNCHANGED <<cache, expiry, hits, misses, written, cache_lock, gets, result, pre>>

\* get, lines 37-39: the counter is written; return self.cache[key], a
\* KeyError if the entry is no longer there
CacheGetHitStore(t) ==
    /\ CacheStep(t, "c_get_hit_store", "c_unlock")
    /\ hits' = loaded[t] + 1
    /\ result' = [result EXCEPT ![t] =
                    IF Has(cache, arg[t].key) THEN Value(cache[arg[t].key])
                    ELSE [kind |-> "KeyError", key |-> arg[t].key]]
    /\ UNCHANGED <<cache, expiry, misses, written, cache_lock, loaded, gets, pre>>

\* set, line 55: self.cache[key] = value
CacheSetValue(t) ==
    /\ CacheStep(t, "c_set_value", "c_set_expiry")
    /\ cache' = DictPut(cache, arg[t].key, arg[t].value)
    /\ UNCHANGED <<expiry, hits, misses, written, cache_lock, loaded, gets, result, pre>>

\* set, line 56: self.expiry[key] = datetime.now() + timedelta(seconds=ttl)
CacheSetExpiry(t) ==
    /\ CacheStep(t, "c_set_expiry", "c_unlock")
    /\ expiry' = DictPut(expiry, arg[t].key, now + arg[t].ttl)
    /\ written' = DictPut(written, arg[t].key,
                          [state |-> "live", at |-> now, ttl |-> arg[t].ttl,
                           value |-> arg[t].value])
    /\ UNCHANGED <<cache, hits, misses, cache_lock, loaded, gets, result, pre>>

\* delete, lines 62-65: if key in self.cache: del both entries
CacheDeleteBody(t) ==
    /\ CacheStep(t, "c_delete", "c_unlock")
    /\ IF Has(cache, arg[t].key)
       THEN /\ cache' = DictDel(cache, arg[t].key)
            /\ expiry' = IF Has(expiry, arg[t].key)
                          THEN DictDel(expiry, arg[t].key) ELSE expiry
       ELSE UNCHANGED <<cache, expiry>>
    /\ written' = IF Has(written, arg[t].key)
                   THEN DictPut(written, arg[t].key, Gone("deleted")) ELSE written
    /\ UNCHANGED <<hits, misses, cache_lock, loaded, gets, result, pre>>

\* clear, lines 70-72
CacheClearBody(t) ==
    /\ CacheStep(t, "c_clear", "c_unlock")
    /\ cache' = EmptyDict
    /\ expiry' = EmptyDict
    /\ written' = [k \in DOMAIN written |-> Gone("cleared")]
    /\ UNCHANGED <<hits, misses, cache_lock, loaded, gets, result, pre>>

\* get_status, lines 77-86
CacheStatusBody(t) ==
    /\ CacheStep(t, "c_status", "c_unlock")
    /\ result' = [result EXCEPT ![t] = GetStatus]
    /\ UNCHANGED <<cacheVars, pre>>

\* the `with self.lock:` block of the cache call is left, and the call returns
CacheRelease(t) ==
    /\ CacheStep(t, "c_unlock", "return")
    /\ cache_lock' = IF cache_lock = t THEN NoThread ELSE cache_lock
    /\ gets' = IF arg[t].op = "cache.get" THEN gets + 1 ELSE gets
    /\ UNCHANGED <<cache, expiry, hits, misses, written, loaded, result, pre>>

\* the steps of a call of thread t after the call itself
Proceed(t) ==
    \/ LedgerAcquire(t)
    \/ GetItemCacheGet(t) \/ GetItemEnter(t) \/ GetItemRead(t) \/ GetItemCacheSet(t)
    \/ CheckAvailabilityBody(t)
    \/ ReserveDuplicate(t) \/ ReserveValidate(t) \/ ReserveItem(t) \/ ReserveInvalidate(t)
    \/ ReleaseFind(t) \/ ReleaseItem(t) \/ ReleaseInvalidate(t)
    \/ AdjustBody(t) \/ AdjustInvalidate(t)
    \/ LowStockBody(t)
    \/ CacheAcquire(t)
    \/ CacheGetTest(t) \/ CacheGetEvict(t) \/ CacheGetMiss(t) \/ CacheGetMissStore(t)
    \/ CacheGetHit(t) \/ CacheGetHitStore(t)
    \/ CacheSetValue(t) \/ CacheSetExpiry(t)
    \/ CacheDeleteBody(t) \/ CacheClearBody(t) \/ CacheStatusBody(t)
    \/ CacheRelease(t)
    \/ Return(t)

LockNext ==
    \/ Tick
    \/ \E t \in Threads : LedgerInvoke(t) \/ CacheInvoke(t) \/ Proceed(t)

\* fair scheduling: a thread that can take a step again and again, the entry
\* of a lock that is released again and again included, takes it
LockSpec ==
    /\ Init
    /\ [][LockNext]_vars
    /\ \A t \in Threads : SF_vars(Proceed(t))

-----------------------------------------------------------------------------
(* The ledger with its callers observed: a run that keeps, for every caller, *)
(* what its get_item calls returned, and the reserved quantities after each  *)
(* reservation made or released                                              *)

MaxReadCalls == 5

\* two orders over the same two items, and the calls made for them
ObservedCalls ==
    { [op |-> "get_item", item_id |-> 1008],
      [op |-> "get_item", item_id |-> 1009],
      [op |-> "reserve_items", order_id |-> "O1",
       items |-> << Pair(1009, 2), Pair(1008, 2) >>],
      [op |-> "reserve_items", order_id |-> "O2",
       items |-> << Pair(1008, 1), Pair(1009, 1) >>],
      [op |-> "release_reservation", order_id |-> "O1"] }

\* a thread calls an operation: get_item starts at its cache lookup, the
\* others block until they have entered `with self.lock`
ObservedInvoke(t) ==
    /\ pc[t] = "idle"
    /\ calls < MaxReadCalls
    /\ calls' = calls + 1
    /\ \E a \in ObservedCalls :
          /\ arg' = [arg EXCEPT ![t] = a]
          /\ last' = IF a.op = "release_reservation" /\ last.op = "reserve_items"
                         /\ last.order_id = a.order_id
                      THEN last ELSE NoLast
          /\ IF a.op = "get_item"
             THEN /\ pc' = [pc EXCEPT ![t] = "gi_cache_get"]
                  /\ UNCHANGED <<lock, pre>>
             ELSE /\ CanAcquire(t)
                  /\ lock' = Acquired(t)
                  /\ pre' = [pre EXCEPT ![t] = Snapshot]
                  /\ pc' = [pc EXCEPT ![t] = FirstLocked(a.op)]
    /\ UNCHANGED <<ledgerVars, cacheVars, now, idx, details, result, observerVars, paymentVars>>

\* the return of an observed call: what get_item hands its caller is kept, and
\* so is the ledger as a reservation made or released leaves it on return,
\* when `with self.lock` lets the next caller in
ObservedReturn(t) ==
    /\ Leave(t)
    /\ seen' = IF arg[t].op = "get_item" /\ result[t].kind = "item"
               THEN [seen EXCEPT ![t] =
                        Append(@, <<arg[t].item_id, result[t].item.reserved>>)]
               ELSE seen
    /\ applied' = IF result[t].kind \in {"reserved", "released"}
                  THEN Append(applied, [i \in Items |-> inventory[i].reserved])
                  ELSE applied

ReadNext ==
    \/ Tick
    \/ \E t \in Threads :
          \/ ObservedInvoke(t)
          \/ GetItemCacheGet(t) \/ GetItemEnter(t) \/ GetItemRead(t) \/ GetItemCacheSet(t)
          \/ ReserveDuplicate(t) \/ ReserveValidate(t)
          \/ ReserveItem(t) \/ ReserveInvalidate(t)
          \/ ReleaseFind(t) \/ ReleaseItem(t) \/ ReleaseInvalidate(t)
          \/ ObservedReturn(t)

ReadSpec == Init /\ [][ReadNext]_vars

-----------------------------------------------------------------------------
(* payment-gateway: PaymentProcessor, one object shared by the threads that  *)
(* serve the routes.  It has no lock: a thread runs until the interpreter    *)
(* hands over to another, which CPython does when a call returns or a loop   *)
(* jumps back, so a step is the code from one such point to the next.        *)
(* Amounts are counted in cents, a card number and a CVV are sequences of    *)
(* digits, an expiry is <<month, year>>                                      *)

MaxPayCalls == 3
MaxPayTime == 1

\* what a payment-gateway step leaves alone: the inventory service
inventoryVars == <<ledgerVars, lock, cacheVars, idx, details, pre, last, observerVars>>

\* `if amount > 999999.99`
MaxAmount == 99999999

\* valid_currencies
ValidCurrencies == {"USD", "EUR", "GBP", "CAD", "AUD"}

\* datetime.now().year % 100 and datetime.now().month
CurrentYear == 26
CurrentMonth == 11

Visa == <<4, 5, 3, 2, 0, 1, 5, 1, 1, 2, 8, 3, 0, 3, 6, 6>>
NotACard == <<1, 2, 3, 4, 5, 6, 7, 8, 1, 2, 3, 4, 5, 6, 7, 8>>

Payment(a, c, n, v, e) ==
    [expiry |-> e, amount |-> a, currency |-> c, card_number |-> n, cvv |-> v]

\* the payments handed to process_payment: two that pass, and one for every
\* validation that fails
Payments ==
    { Payment(5000, "USD", Visa, <<1, 2, 3>>, <<12, 30>>),
      Payment(10000, "EUR", Visa, <<1, 2, 3, 4>>, <<11, 26>>),
      Payment(0, "USD", Visa, <<1, 2, 3>>, <<12, 30>>),
      Payment(MaxAmount + 1, "USD", Visa, <<1, 2, 3>>, <<12, 30>>),
      Payment(5000, "USD", NotACard, <<1, 2, 3>>, <<12, 30>>),
      Payment(5000, "USD", << >>, <<1, 2, 3>>, <<12, 30>>),
      Payment(5000, "USD", Visa, <<1, 2>>, <<12, 30>>),
      Payment(5000, "USD", Visa, <<1, 2, 3>>, <<10, 26>>),
      Payment(5000, "USD", Visa, <<1, 2, 3>>, <<13, 30>>),
      Payment(5000, "JPY", Visa, <<1, 2, 3>>, <<12, 30>>) }

\* _generate_auth_code: six random digits
AuthCodes == { <<0, 0, 0, 0, 0, 0>>, <<4, 0, 7, 1, 9, 3>> }

\* str.isdigit(): not empty, and every character a digit
IsDigits(str) == str # << >> /\ \A k \in 1..Len(str) : str[k] \in 0..9

RECURSIVE LuhnSum(_, _)
\* the checksum over reversed(digits) from position i (counted from 0) on:
\* every second digit is doubled, and 9 taken off when that exceeds 9
LuhnSum(digits, i) ==
    IF i >= Len(digits) THEN 0
    ELSE LET digit == digits[Len(digits) - i]
             doubled == IF 2 * digit > 9 THEN 2 * digit - 9 ELSE 2 * digit
         IN (IF i % 2 = 1 THEN doubled ELSE digit) + LuhnSum(digits, i + 1)

\* PaymentProcessor.validate_card
validate_card(card_number) ==
    IF ~IsDigits(card_number) THEN FALSE ELSE LuhnSum(card_number, 0) % 10 = 0

\* PaymentProcessor.validate_expiry, of an expiry that parses as MM/YY
validate_expiry(mm_yy) ==
    LET month_int == mm_yy[1]
        year_int == mm_yy[2]
    IN IF ~(1 <= month_int /\ month_int <= 12) THEN FALSE
       ELSE IF year_int < CurrentYear THEN FALSE
       ELSE IF year_int = CurrentYear /\ month_int < CurrentMonth THEN FALSE
       ELSE TRUE

\* PaymentProcessor.calculate_processing_fee: round(amount * 0.029 + 0.30, 2)
calculate_processing_fee(amount) == RoundDiv(amount * 29, 1000) + 30

\* PaymentProcessor.generate_transaction_id: the first 16 hex digits of the
\* SHA-256 of amount, currency and timestamp; the hash is taken to give
\* different ids to different triples, and the same id to the same triple
generate_transaction_id(amount, currency, timestamp) == <<amount, currency, timestamp>>

\* PaymentProcessor._detect_card_type
DetectCardType(card_number) ==
    IF card_number[1] = 4 THEN "Visa"
    ELSE IF SubSeq(card_number, 1, 2) \in {<<5, 1>>, <<5, 2>>, <<5, 3>>, <<5, 4>>, <<5, 5>>}
         THEN "Mastercard"
    ELSE IF SubSeq(card_number, 1, 2) \in {<<3, 4>>, <<3, 7>>} THEN "American Express"
    ELSE IF card_number[1] = 6 THEN "Discover"
    ELSE "Unknown"

\* an id that no payment has: the amount of a processed payment is positive
UnknownTransaction == <<0, "USD", 0>>

Failed(code) == [kind |-> "failed", code |-> code]

\* lines 75-120: the first validation that fails, or none
ValidationFailure(a) ==
    IF a.amount <= 0 THEN "INVALID_AMOUNT"
    ELSE IF a.amount > MaxAmount THEN "AMOUNT_TOO_LARGE"
    ELSE IF ~validate_card(a.card_number) THEN "INVALID_CARD"
    ELSE IF Len(a.cvv) \notin {3, 4} \/ ~IsDigits(a.cvv) THEN "INVALID_CVV"
    ELSE IF ~validate_expiry(a.expiry) THEN "INVALID_EXPIRY"
    ELSE IF a.currency \notin ValidCurrencies THEN "INVALID_CURRENCY"
    ELSE "none"

\* a thread serving a route calls an operation of the processor
PaymentCall(t, a, next) ==
    /\ pc[t] = "idle"
    /\ calls < MaxPayCalls
    /\ calls' = calls + 1
    /\ arg' = [arg EXCEPT ![t] = a]
    /\ pc' = [pc EXCEPT ![t] = next]
    /\ UNCHANGED <<inventoryVars, paymentVars, now, result>>

CallProcessPayment(t) ==
    \E p \in Payments :
        PaymentCall(t, [expiry |-> p.expiry, op |-> "process_payment",
                        amount |-> p.amount, currency |-> p.currency,
                        card_number |-> p.card_number, cvv |-> p.cvv], "pp_validate")

\* lines 75-120: the validations, none of which reads or writes the processor
ProcessPaymentValidate(t) ==
    /\ pc[t] = "pp_validate"
    /\ IF ValidationFailure(arg[t]) # "none"
       THEN /\ result' = [result EXCEPT ![t] = Failed(ValidationFailure(arg[t]))]
            /\ pc' = [pc EXCEPT ![t] = "return"]
       ELSE /\ pc' = [pc EXCEPT ![t] = "pp_build"]
            /\ UNCHANGED result
    /\ UNCHANGED <<inventoryVars, paymentVars, now, arg, calls>>

\* lines 123-140: the transaction is built from the clock, the arguments and
\* a random authorization code
ProcessPaymentBuild(t) ==
    /\ pc[t] = "pp_build"
    /\ \E code \in AuthCodes :
          LET a == arg[t]
              transaction_id == generate_transaction_id(a.amount, a.currency, now)
              processing_fee == calculate_processing_fee(a.amount)
          IN result' = [result EXCEPT ![t] =
                  [kind |-> "processed", timestamp |-> now, amount |-> a.amount,
                   currency |-> a.currency, transaction_id |-> transaction_id,
                   processing_fee |-> processing_fee,
                   net_amount |-> a.amount - processing_fee,
                   card_last_four |-> SubSeq(a.card_number, Len(a.card_number) - 3,
                                             Len(a.card_number)),
                   card_type |-> DetectCardType(a.card_number),
                   authorization_code |-> code]]
    /\ pc' = [pc EXCEPT ![t] = "pp_store"]
    /\ UNCHANGED <<inventoryVars, paymentVars, now, arg, calls>>

\* lines 142-145: self.processed_transactions[transaction_id] = transaction
ProcessPaymentStore(t) ==
    /\ pc[t] = "pp_store"
    /\ processed_transactions' =
          DictPut(processed_transactions, result[t].transaction_id, result[t])
    /\ pc' = [pc EXCEPT ![t] = "return"]
    /\ UNCHANGED <<inventoryVars, refunded_transactions, refunds, now, arg, result, calls>>

\* the ids refund_transaction is called with: those of the transactions
\* processed so far, and one that is unknown
CallRefund(t) ==
    \E id \in DOMAIN processed_transactions \cup {UnknownTransaction} :
        PaymentCall(t, [op |-> "refund_transaction", transaction_id |-> id], "rf_body")

\* faulty variant: the test for an id that is already refunded is missing
RefundBody_unchecked(t) ==
    /\ pc[t] = "rf_body"
    /\ LET id == arg[t].transaction_id
       IN IF ~Has(processed_transactions, id)
          THEN /\ result' = [result EXCEPT ![t] = Failed("TRANSACTION_NOT_FOUND")]
               /\ pc' = [pc EXCEPT ![t] = "return"]
               /\ UNCHANGED <<refunded_transactions, refunds>>
          ELSE /\ refunded_transactions' = refunded_transactions \cup {id}
               /\ refunds' = DictPut(refunds, id,
                                     IF Has(refunds, id) THEN refunds[id] + 1 ELSE 1)
               /\ result' = [result EXCEPT ![t] =
                               [kind |-> "refunding", transaction_id |-> id,
                                refund_amount |-> processed_transactions[id].amount]]
               /\ pc' = [pc EXCEPT ![t] = "rf_result"]
    /\ UNCHANGED <<inventoryVars, processed_transactions, now, arg, calls>>

\* lines 166-181: an unknown id and an id already refunded are refused; else
\* the transaction is read and its id added to the refunded set.  No call
\* returns and no loop turns before set.add has run, so this is one step
RefundBody(t) ==
    /\ pc[t] = "rf_body"
    /\ LET id == arg[t].transaction_id
       IN IF ~Has(processed_transactions, id)
          THEN /\ result' = [result EXCEPT ![t] = Failed("TRANSACTION_NOT_FOUND")]
               /\ pc' = [pc EXCEPT ![t] = "return"]
               /\ UNCHANGED <<refunded_transactions, refunds>>
          ELSE IF id \in refunded_transactions
          THEN /\ result' = [result EXCEPT ![t] = Failed("ALREADY_REFUNDED")]
               /\ pc' = [pc EXCEPT ![t] = "return"]
               /\ UNCHANGED <<refunded_transactions, refunds>>
          ELSE /\ refunded_transactions' = refunded_transactions \cup {id}
               /\ refunds' = DictPut(refunds, id,
                                     IF Has(refunds, id) THEN refunds[id] + 1 ELSE 1)
               /\ result' = [result EXCEPT ![t] =
                               [kind |-> "refunding", transaction_id |-> id,
                                refund_amount |-> processed_transactions[id].amount]]
               /\ pc' = [pc EXCEPT ![t] = "rf_result"]
    /\ UNCHANGED <<inventoryVars, processed_transactions, now, arg, calls>>

\* lines 183-190: the 'refunded' answer, built from the local `transaction`
\* (kept in result since line 180) and stamped with the clock
RefundResult(t) ==
    /\ pc[t] = "rf_result"
    /\ result' = [result EXCEPT ![t] =
                    [kind |-> "refunded", transaction_id |-> result[t].transaction_id,
                     refund_amount |-> result[t].refund_amount,
                     refund_timestamp |-> now]]
    /\ pc' = [pc EXCEPT ![t] = "return"]
    /\ UNCHANGED <<inventoryVars, paymentVars, now, arg, calls>>

\* the operation returns and the thread is free for its next request
PaymentReturn(t) ==
    /\ pc[t] = "return"
    /\ pc' = [pc EXCEPT ![t] = "idle"]
    /\ arg' = [arg EXCEPT ![t] = NoArg]
    /\ result' = [result EXCEPT ![t] = NoResult]
    /\ UNCHANGED <<inventoryVars, paymentVars, now, calls>>

\* the clock that datetime.utcnow() reads
PaymentTick ==
    /\ now < MaxPayTime
    /\ now' = now + 1
    /\ UNCHANGED <<inventoryVars, paymentVars, pc, arg, result, calls>>

PayNext ==
    \/ PaymentTick
    \/ \E t \in Threads :
          \/ CallProcessPayment(t) \/ ProcessPaymentValidate(t)
          \/ ProcessPaymentBuild(t) \/ ProcessPaymentStore(t)
          \/ CallRefund(t) \/ RefundBody(t) \/ RefundResult(t)
          \/ PaymentReturn(t)

PaySpec == Init /\ [][PayNext]_vars

-----------------------------------------------------------------------------
(* What the claims speak of *)

\* the statements a thread executes inside `with self.lock`
LockedPcs == {"gi_read", "gi_cache_set", "ca_body", "res_duplicate", "res_validate",
              "res_reserve", "res_invalidate", "rel_find", "rel_release",
              "rel_invalidate", "adj_body", "adj_invalidate", "ls_body"}

\* thread t is about to return this kind of result from this operation
Returning(t, op, kind) == pc[t] = "return" /\ arg[t].op = op /\ result[t].kind = kind

\* no operation is inside the ledger's critical section
Quiescent == lock.owner = NoThread

RECURSIVE SumSeq(_, _)
\* the quantities a reservation's details record for item i
SumSeq(s, i) ==
    IF s = << >> THEN 0
    ELSE (IF Head(s)[1] = i THEN Head(s)[2] ELSE 0) + SumSeq(Tail(s), i)

RECURSIVE SumOrders(_, _)
\* the quantity of item i recorded by the live reservations of the orders os
SumOrders(os, i) ==
    IF os = {} THEN 0
    ELSE LET o == CHOOSE x \in os : TRUE
         IN SumSeq(reservations[o].items, i) + SumOrders(os \ {o}, i)

RECURSIVE SumPairs(_, _)
\* the quantities the pairs of an item list ask of item i
SumPairs(items, i) ==
    IF items = << >> THEN 0
    ELSE (IF Head(items).item_id = i THEN Head(items).quantity ELSE 0)
         + SumPairs(Tail(items), i)

\* how many pairs of its item list reserve_items has applied to `reserved`
AppliedCount(t) ==
    CASE pc[t] = "res_reserve" -> idx[t] - 1
      [] pc[t] = "res_invalidate" -> idx[t]
      [] pc[t] = "return" /\ result[t].kind = "reserved" -> Len(arg[t].items)
      [] OTHER -> 0

\* the ledger is as thread t found it
LedgerKeptSince(t) ==
    /\ inventory = pre[t].inventory
    /\ reservations = pre[t].reservations
    /\ adjustment_log = pre[t].adjustment_log

\* every cache entry is as thread t found it, but for the entries whose TTL has
\* run out since, which a get of another thread may have evicted
CacheKeptSince(t) ==
    /\ DOMAIN cache \subseteq DOMAIN pre[t].cache
    /\ \A k \in DOMAIN pre[t].cache :
          IF Has(cache, k)
          THEN cache[k] = pre[t].cache[k] /\ expiry[k] = pre[t].expiry[k]
          ELSE now > pre[t].expiry[k]

\* the operations that change the ledger
Mutators == {"reserve_items", "release_reservation", "adjust_inventory"}

\* item i as the mutations that have returned left it: while a mutation is
\* inside the lock, that is the item as the mutation found it
Committed(i) ==
    IF lock.owner \in Threads /\ arg[lock.owner].op \in Mutators
    THEN pre[lock.owner].inventory[i]
    ELSE inventory[i]

-----------------------------------------------------------------------------
(* The claims *)

(* C1: in every state between operations, every item has 0 <= reserved <= stock *)
C1_ReservedWithinStock ==
    Quiescent =>
        \A i \in Items : 0 <= inventory[i].reserved /\ inventory[i].reserved <= inventory[i].stock

(* C2: the ledger's critical section holds one thread at a time, so from its
   availability checks to its return a reserve_items sees the ledger change by
   its own increments only, and every pair it is granted was available when
   the call entered *)
C2_ReserveAtomic ==
    \A t \in Threads :
        /\ pc[t] \in LockedPcs => lock.owner = t
        /\ (arg[t].op = "reserve_items" /\ pc[t] # "idle") =>
              \A i \in Items :
                 /\ inventory[i].stock = pre[t].inventory[i].stock
                 /\ inventory[i].reserved = pre[t].inventory[i].reserved
                       + SumPairs(SubSeq(arg[t].items, 1, AppliedCount(t)), i)
        /\ Returning(t, "reserve_items", "reserved") =>
              \A k \in 1..Len(arg[t].items) :
                 LET p == arg[t].items[k]
                 IN p.quantity <= pre[t].inventory[p.item_id].stock
                                    - pre[t].inventory[p.item_id].reserved

\* a caller is refused units that the reservation of another order holds
C2_Witness ==
    \E t \in Threads :
        /\ Returning(t, "reserve_items", "insufficient")
        /\ \E o \in DOMAIN reservations :
              /\ o # arg[t].order_id
              /\ SumSeq(reservations[o].items, result[t].item_id) > 0
              /\ result[t].requested
                    <= result[t].available + SumSeq(reservations[o].items, result[t].item_id)

(* C3: when reserve_items returns InsufficientInventory, the items, the
   reservations, the audit log and the cache entries are as the call found them *)
C3_FailedReserveChangesNothing ==
    \A t \in Threads :
        Returning(t, "reserve_items", "insufficient") =>
            LedgerKeptSince(t) /\ CacheKeptSince(t)

\* the second pair of a list fails, after the first has passed, with the
\* first pair's item in the cache
C3_Witness ==
    \E t \in Threads :
        /\ Returning(t, "reserve_items", "insufficient")
        /\ idx[t] = 2
        /\ Has(cache, Key(arg[t].items[1].item_id))

(* C4: when reserve_items returns "reserved", each listed item's reserved is its
   value at entry plus the pair's quantity, and the reservation recorded under
   the order id holds the listed pairs *)
C4_ReserveAddsExactly ==
    \A t \in Threads :
        Returning(t, "reserve_items", "reserved") =>
            /\ Has(reservations, arg[t].order_id)
            /\ \A k \in 1..Len(arg[t].items) :
                  LET p == arg[t].items[k]
                  IN /\ inventory[p.item_id].reserved =
                           pre[t].inventory[p.item_id].reserved + p.quantity
                     /\ \E j \in 1..Len(reservations[arg[t].order_id].items) :
                           reservations[arg[t].order_id].items[j] = <<p.item_id, p.quantity>>

(* C5: when release_reservation returns "released" for the order whose
   reserve_items succeeded last, nothing else called in between, every item's
   reserved is back at its value before that reserve_items *)
C5_RoundTrip ==
    \A t \in Threads :
        ( /\ Returning(t, "release_reservation", "released")
          /\ last.op = "reserve_items"
          /\ last.order_id = arg[t].order_id )
        => \A i \in Items : inventory[i].reserved = last.reserved[i]

(* C6: in every state between operations, each item's reserved equals the sum
   of the quantities the live reservations record for it *)
C6_ReservedIsSumOfReservations ==
    Quiescent =>
        \A i \in Items : SumOrders(DOMAIN reservations, i) = inventory[i].reserved

(* C7: a reserve_items for an order id that has a live reservation returns
   DuplicateReservation, whatever the items, and leaves the items, the
   reservations, the audit log and the cache entries as it found them *)
C7_DuplicateChangesNothing ==
    \A t \in Threads :
        ( /\ arg[t].op = "reserve_items"
          /\ pc[t] \notin {"idle", "res_duplicate"}
          /\ Has(pre[t].reservations, arg[t].order_id) )
        => /\ Returning(t, "reserve_items", "duplicate")
           /\ LedgerKeptSince(t)
           /\ CacheKeptSince(t)

\* the second reserve_items of an order is refused, its items being available
C7_Witness ==
    \E t \in Threads :
        /\ Returning(t, "reserve_items", "duplicate")
        /\ Len(arg[t].items) > 0
        /\ \A k \in 1..Len(arg[t].items) :
              IsAvailable(arg[t].items[k].item_id, arg[t].items[k].quantity)

(* C8: the item a get_item obtains, from the cache or from the ledger, has the
   stock and reserved that the mutations returned so far have left *)
C8_NoStaleRead ==
    [][ \A t \in Threads :
          ( /\ arg'[t].op = "get_item"
            /\ result[t].kind # "item"
            /\ result'[t].kind = "item" )
          => /\ result'[t].item.stock = Committed(arg'[t].item_id).stock
             /\ result'[t].item.reserved = Committed(arg'[t].item_id).reserved ]_vars

\* a get_item is answered from the cache with values a mutation has set
C8_Witness ==
    \E t \in Threads :
        /\ Returning(t, "get_item", "item")
        /\ result[t].cached
        /\ \/ result[t].item.stock # SeedInventory[arg[t].item_id].stock
           \/ result[t].item.reserved # SeedInventory[arg[t].item_id].reserved

(* C9: adjust_inventory of a known item with stock + delta < 0 returns
   NegativeStockViolation and leaves the items, the audit log and the cache
   entries as it found them *)
C9_NegativeStockRejected ==
    \A t \in Threads :
        ( /\ arg[t].op = "adjust_inventory"
          /\ pc[t] \notin {"idle", "adj_body"}
          /\ arg[t].item_id \in Items
          /\ pre[t].inventory[arg[t].item_id].stock + arg[t].adjustment < 0 )
        => /\ Returning(t, "adjust_inventory", "negative_stock")
           /\ LedgerKeptSince(t)
           /\ CacheKeptSince(t)

\* an adjustment is rejected while the item is in the cache
C9_Witness ==
    \E t \in Threads :
        /\ Returning(t, "adjust_inventory", "negative_stock")
        /\ Has(cache, Key(arg[t].item_id))

(* C10: adjust_inventory of a known item with stock + delta >= 0 returns
   "adjusted" with the old stock, the new stock and the delta, having set the
   stock to old stock + delta, appended one audit entry and removed the item's
   cache entry *)
C10_AdjustCommits ==
    \A t \in Threads :
        ( /\ arg[t].op = "adjust_inventory"
          /\ pc[t] = "return"
          /\ arg[t].item_id \in Items
          /\ pre[t].inventory[arg[t].item_id].stock + arg[t].adjustment >= 0 )
        => LET i == arg[t].item_id
               old == pre[t].inventory[i].stock
               new == old + arg[t].adjustment
               n == Len(adjustment_log)
           IN /\ result[t].kind = "adjusted"
              /\ result[t].old_stock = old
              /\ result[t].new_stock = new
              /\ result[t].adjustment = arg[t].adjustment
              /\ inventory = [pre[t].inventory EXCEPT ![i].stock = new]
              /\ reservations = pre[t].reservations
              /\ n = Len(pre[t].adjustment_log) + 1
              /\ SubSeq(adjustment_log, 1, n - 1) = pre[t].adjustment_log
              /\ adjustment_log[n].item_id = i
              /\ adjustment_log[n].old_stock = old
              /\ adjustment_log[n].new_stock = new
              /\ adjustment_log[n].adjustment = arg[t].adjustment
              /\ adjustment_log[n].reason = arg[t].reason
              /\ ~Has(cache, Key(i))
              /\ ~Has(expiry, Key(i))

\* an adjustment commits for an item that was in the cache
C10_Witness ==
    \E t \in Threads :
        /\ Returning(t, "adjust_inventory", "adjusted")
        /\ Has(pre[t].cache, Key(arg[t].item_id))

(* C11: release_reservation of an order id that has no live reservation, never
   reserved or released already, returns a not-found result and leaves the
   items, the reservations, the audit log and the cache entries as it found
   them *)
C11_ReleaseMissingChangesNothing ==
    \A t \in Threads :
        ( /\ arg[t].op = "release_reservation"
          /\ pc[t] \notin {"idle", "rel_find"}
          /\ ~Has(pre[t].reservations, arg[t].order_id) )
        => /\ Returning(t, "release_reservation", "reservation_not_found")
           /\ LedgerKeptSince(t)
           /\ CacheKeptSince(t)

\* the second release of an order: its reserve_items succeeded, and nothing
\* but releases of that order were called since
C11_Witness ==
    \E t \in Threads :
        /\ Returning(t, "release_reservation", "reservation_not_found")
        /\ last.op = "reserve_items"
        /\ last.order_id = arg[t].order_id

(* C12: check_availability returns false for an unknown id, and otherwise
   whether stock - reserved >= quantity on the ledger as it is under the lock;
   it leaves the ledger and the cache entries as it found them *)
C12_CheckAvailabilityLive ==
    \A t \in Threads :
        Returning(t, "check_availability", "bool") =>
            /\ result[t].value =
                  ( /\ arg[t].item_id \in Items
                    /\ inventory[arg[t].item_id].stock - inventory[arg[t].item_id].reserved
                          >= arg[t].quantity )
            /\ LedgerKeptSince(t)
            /\ CacheKeptSince(t)

\* a quantity the seeded item could not supply is available after a restock,
\* while the item has an entry in the cache
C12_Witness ==
    \E t \in Threads :
        /\ Returning(t, "check_availability", "bool")
        /\ result[t].value
        /\ arg[t].item_id \in Items
        /\ arg[t].quantity > SeedInventory[arg[t].item_id].stock
                                - SeedInventory[arg[t].item_id].reserved
        /\ Has(cache, Key(arg[t].item_id))

(* C13: get_low_stock_items(threshold) returns the items whose stock - reserved
   is <= threshold, each once and no other, with its stock, reserved and
   available as the ledger has them, in ascending order of available; it
   leaves the ledger as it found it *)
C13_LowStockExactAndSorted ==
    \A t \in Threads :
        Returning(t, "get_low_stock_items", "list") =>
            LET items == result[t].items
            IN /\ {items[k].item_id : k \in 1..Len(items)} =
                     {i \in Items : inventory[i].stock - inventory[i].reserved <= arg[t].threshold}
               /\ \A j, k \in 1..Len(items) : items[j].item_id = items[k].item_id => j = k
               /\ \A k \in 1..Len(items) : items[k] = LowStockEntry(items[k].item_id)
               /\ \A k \in 1..Len(items) - 1 : items[k].available <= items[k + 1].available
               /\ LedgerKeptSince(t)

\* the two items are returned against their catalog order, the second of them
\* with available equal to the threshold
C13_Witness ==
    \E t \in Threads :
        /\ Returning(t, "get_low_stock_items", "list")
        /\ Len(result[t].items) = 2
        /\ result[t].items[1].item_id = Catalog[2]
        /\ result[t].items[2].available = arg[t].threshold

(* C14: when reserve_items returns InsufficientInventory, the reported item is
   that of the first pair of the list, in the caller's order, whose quantity
   exceeds the item's stock - reserved, and the result carries that pair's
   item id, its quantity, and the item's stock - reserved at the call *)
C14_FirstFailingPairReported ==
    \A t \in Threads :
        Returning(t, "reserve_items", "insufficient") =>
            \E k \in 1..Len(arg[t].items) :
                LET p == arg[t].items[k]
                IN /\ p.item_id \in Items
                   /\ p.quantity > pre[t].inventory[p.item_id].stock
                                      - pre[t].inventory[p.item_id].reserved
                   /\ \A j \in 1..(k - 1) :
                         LET e == arg[t].items[j]
                         IN ~( /\ e.item_id \in Items
                               /\ e.quantity > pre[t].inventory[e.item_id].stock
                                                  - pre[t].inventory[e.item_id].reserved )
                   /\ result[t].item_id = p.item_id
                   /\ result[t].requested = p.quantity
                   /\ result[t].available = pre[t].inventory[p.item_id].stock
                                               - pre[t].inventory[p.item_id].reserved

\* two pairs of the list exceed what is available, the reported item has units
\* reserved, and it is the first pair that is reported
C14_Witness ==
    \E t \in Threads :
        /\ Returning(t, "reserve_items", "insufficient")
        /\ result[t].item_id = arg[t].items[1].item_id
        /\ inventory[result[t].item_id].reserved > 0
        /\ \E j \in 2..Len(arg[t].items) :
              /\ arg[t].items[j].item_id \in Items
              /\ ~IsAvailable(arg[t].items[j].item_id, arg[t].items[j].quantity)

(* C15: every ledger operation returns a structured result, a success or a
   named failure, and never raises; reserve_items with a list that names an id
   that is not in the catalog returns a failure result and leaves the ledger
   as it found it *)
C15_NeverRaises ==
    \A t \in Threads :
        pc[t] = "return" =>
            /\ result[t].kind # "KeyError"
            /\ ( /\ arg[t].op = "reserve_items"
                 /\ \E k \in 1..Len(arg[t].items) : arg[t].items[k].item_id \notin Items )
               => /\ result[t].kind \in {"duplicate", "insufficient", "item_not_found"}
                  /\ LedgerKeptSince(t)

(* C16: a get(k) made at a time <= set time + ttl of the last set(k, v, ttl),
   with no delete or clear of k since, returns v and adds one to hits; made
   later than set time + ttl it returns absent, adds one to misses and leaves
   no entry for k; a get of a key that was never set, or was deleted or
   cleared since, returns absent and adds one to misses *)
C16_TTLLaw ==
    \A t \in Threads :
        arg[t].op = "cache.get" =>
            LET k == arg[t].key
                w == pre[t].written
            IN IF Live(w, k) /\ pre[t].now <= w[k].at + w[k].ttl
               THEN /\ result[t] = Value(w[k].value)
                    /\ hits = pre[t].hits + 1
                    /\ misses = pre[t].misses
               ELSE /\ result[t] = Absent
                    /\ misses = pre[t].misses + 1
                    /\ hits = pre[t].hits
                    /\ Live(w, k) => ~Has(cache, k) /\ ~Has(expiry, k)

\* a key that a get has found is, one second after set time + ttl, absent
C16_Witness ==
    \E t \in Threads :
        /\ arg[t].op = "cache.get"
        /\ result[t] = Absent
        /\ Live(pre[t].written, arg[t].key)
        /\ pre[t].now = pre[t].written[arg[t].key].at + pre[t].written[arg[t].key].ttl + 1
        /\ hits > 0

(* C17: set(k, v, ttl) replaces any entry of k, expired or not: afterwards the
   value of k is v and its expiry is the time of this set plus ttl, and the
   entries of the other keys and the hit and miss counters are as before *)
C17_SetOverwrites ==
    \A t \in Threads :
        arg[t].op = "cache.set" =>
            LET k == arg[t].key
            IN /\ Has(cache, k) /\ cache[k] = arg[t].value
               /\ Has(expiry, k) /\ expiry[k] = pre[t].now + arg[t].ttl
               /\ DOMAIN cache = DOMAIN pre[t].cache \cup {k}
               /\ DOMAIN expiry = DOMAIN pre[t].expiry \cup {k}
               /\ \A o \in DOMAIN pre[t].cache \ {k} :
                     cache[o] = pre[t].cache[o] /\ expiry[o] = pre[t].expiry[o]
               /\ hits = pre[t].hits
               /\ misses = pre[t].misses

\* a set replaces an expired entry that held another value, with another
\* expiry, while the other key has an entry
C17_Witness ==
    \E t \in Threads :
        /\ arg[t].op = "cache.set"
        /\ Has(pre[t].cache, arg[t].key)
        /\ pre[t].now > pre[t].expiry[arg[t].key]
        /\ pre[t].cache[arg[t].key] # arg[t].value
        /\ DOMAIN cache = CacheKeys

(* C18: delete(k) leaves no entry for k and every other entry and the counters
   as they were, so a delete of an absent key, and a second delete, change
   nothing; clear leaves no entry and the counters as they were, so a second
   clear changes nothing; a get of a key deleted or cleared, and not set
   since, returns absent *)
C18_DeleteClearIdempotent ==
    \A t \in Threads :
        /\ arg[t].op = "cache.delete" =>
              LET k == arg[t].key
              IN /\ DOMAIN cache = DOMAIN pre[t].cache \ {k}
                 /\ DOMAIN expiry = DOMAIN pre[t].expiry \ {k}
                 /\ \A o \in DOMAIN cache :
                       cache[o] = pre[t].cache[o] /\ expiry[o] = pre[t].expiry[o]
                 /\ ~Has(pre[t].cache, k) =>
                       cache = pre[t].cache /\ expiry = pre[t].expiry
                 /\ hits = pre[t].hits /\ misses = pre[t].misses
        /\ arg[t].op = "cache.clear" =>
              /\ DOMAIN cache = {} /\ DOMAIN expiry = {}
              /\ hits = pre[t].hits /\ misses = pre[t].misses
        /\ ( /\ arg[t].op = "cache.get"
             /\ Has(pre[t].written, arg[t].key)
             /\ pre[t].written[arg[t].key].state \in {"deleted", "cleared"} )
           => result[t] = Absent

\* the second delete of a key that was set, while the other key has an entry
C18_Witness ==
    \E t \in Threads :
        /\ arg[t].op = "cache.delete"
        /\ Has(pre[t].written, arg[t].key)
        /\ pre[t].written[arg[t].key].state = "deleted"
        /\ DOMAIN cache # {}

(* C19: the cache status reports the number of entries, the hits, the misses,
   and a hit rate equal to hits / (hits + misses), which is 0 when no get has
   been made; the rate being reported in hundredths, it equals the ratio
   when rate * (hits + misses) = 100 * hits *)
C19_HitRateIsRatio ==
    \A t \in Threads :
        arg[t].op = "cache.get_status" =>
            /\ result[t].entries = Cardinality(DOMAIN cache)
            /\ result[t].hits = hits
            /\ result[t].misses = misses
            /\ IF hits + misses = 0
               THEN result[t].hit_rate = 0
               ELSE result[t].hit_rate * (hits + misses) = 100 * hits

(* C19, amended: the cache status reports the number of entries, the hits, the
   misses, and as hit rate the percentage 100 * hits / (hits + misses) rounded
   to two decimals, which is 0 when no get has been made *)
C19_HitRateIsPercent ==
    \A t \in Threads :
        arg[t].op = "cache.get_status" =>
            /\ result[t].entries = Cardinality(DOMAIN cache)
            /\ result[t].hits = hits
            /\ result[t].misses = misses
            /\ IF hits + misses = 0
               THEN result[t].hit_rate = 0
               ELSE LET d == result[t].hit_rate * (hits + misses) - 10000 * hits
                    IN 2 * d <= hits + misses /\ -2 * d <= hits + misses

\* the status after two hits and a miss, with an entry in the cache: the
\* percentage 66.666... is reported as 66.67
C19_Witness ==
    \E t \in Threads :
        /\ arg[t].op = "cache.get_status"
        /\ result[t].hits = 2
        /\ result[t].misses = 1
        /\ result[t].entries = 1
        /\ result[t].hit_rate = 6667

(* C20: get_item of an id that is not in the catalog returns NotFound, answered
   from the ledger under its lock, and writes nothing to the cache: the id
   never has a cache entry, so every later get_item of it is answered from
   the ledger again *)
C20_AbsenceNotCached ==
    /\ ~Has(cache, Key(UnknownId))
    /\ ~Has(expiry, Key(UnknownId))
    /\ \A t \in Threads :
          ( /\ arg[t].op = "get_item"
            /\ arg[t].item_id \notin Items
            /\ pc[t] = "return" )
          => /\ result[t].kind = "item_not_found"
             /\ pre[t].held
             /\ LedgerKeptSince(t)
             /\ CacheKeptSince(t)

\* the second of two calls, both get_item of the unknown id, both missing the
\* cache, is answered NotFound
C20_Witness ==
    \E t \in Threads :
        /\ Returning(t, "get_item", "item_not_found")
        /\ \A u \in Threads \ {t} : pc[u] = "idle"
        /\ calls = 2
        /\ misses = 2
        /\ DOMAIN cache = {}

(* C22: every public ledger operation, reads and writes alike, holds the
   ledger lock from its first statement to its return (a caller blocked on the
   lock is not executing), so at most one caller at a time executes any part
   of a ledger operation *)
C22_LockHeldThroughout ==
    /\ \A t \in Threads : pc[t] \notin {"idle", "gi_lock"} => lock.owner = t
    /\ Cardinality({t \in Threads : pc[t] \notin {"idle", "gi_lock"}}) <= 1

(* C22, amended: every public ledger operation reads and writes the ledger's
   state only while it holds the ledger lock: check_availability,
   get_low_stock_items, reserve_items, release_reservation and
   adjust_inventory hold it from their first statement to their return, and
   get_item from a cache miss to its return, its cache lookup and the return
   of a cache hit running without the lock; so at most one caller at a time
   executes a part of a ledger operation that touches the ledger's state *)
C22_LedgerStateUnderLock ==
    /\ \A t \in Threads :
          /\ pc[t] \in LockedPcs => lock.owner = t
          /\ (pc[t] = "return" /\ pre[t].held) => lock.owner = t
          /\ (pc[t] # "idle" /\ arg[t].op # "get_item") => lock.owner = t
          /\ (pc[t] = "return" /\ ~pre[t].held) =>
                arg[t].op = "get_item" /\ result[t].kind = "item" /\ result[t].cached
    /\ Cardinality({t \in Threads : pc[t] \in LockedPcs}) <= 1

\* while one caller is inside a mutation, another is answered from the cache
C22_Witness ==
    \E t, u \in Threads :
        /\ pc[t] \in LockedPcs
        /\ arg[t].op \in Mutators
        /\ Returning(u, "get_item", "item")
        /\ result[u].cached

(* C24: every item's stock is a non-negative integer in every reachable state,
   whatever adjustments, of either sign, and other operations are called *)
C24_StockNonNegative ==
    \A i \in Items : inventory[i].stock \in Nat

\* an item's stock has been adjusted down to zero, and a further negative
\* adjustment of it is rejected
C24_Witness ==
    \E t \in Threads :
        /\ Returning(t, "adjust_inventory", "negative_stock")
        /\ inventory[arg[t].item_id].stock = 0
        /\ Len(adjustment_log) > 0

\* the items a returning mutation has modified
ModifiedItems(t) ==
    CASE arg[t].op = "reserve_items" ->
            {arg[t].items[k].item_id : k \in 1..Len(arg[t].items)}
      [] arg[t].op = "release_reservation" ->
            {details[t][k][1] : k \in 1..Len(details[t])}
      [] arg[t].op = "adjust_inventory" -> {arg[t].item_id}
      [] OTHER -> {}

(* C25: when a successful reserve_items, release_reservation or
   adjust_inventory reaches its return, still holding the ledger lock, the
   cache has no entry for any item the call modified; and whenever no caller
   is inside the lock, every entry in the cache shows the stock and reserved
   the ledger has, so no snapshot from before a mutation is in the cache *)
C25_InvalidatedBeforeReturn ==
    /\ \A t \in Threads :
          ( \/ Returning(t, "reserve_items", "reserved")
            \/ Returning(t, "release_reservation", "released")
            \/ Returning(t, "adjust_inventory", "adjusted") )
          => \A i \in ModifiedItems(t) :
                ~Has(cache, Key(i)) /\ ~Has(expiry, Key(i))
    /\ Quiescent =>
          \A i \in Items :
             Has(cache, Key(i)) =>
                /\ cache[Key(i)].stock = inventory[i].stock
                /\ cache[Key(i)].reserved = inventory[i].reserved

\* a release returns, having modified an item that was in the cache when the
\* release began
C25_Witness ==
    \E t \in Threads :
        /\ Returning(t, "release_reservation", "released")
        /\ \E i \in ModifiedItems(t) : Has(pre[t].cache, Key(i))

\* a mutating call of t returns its success result
Succeeded(t) ==
    \/ Returning(t, "reserve_items", "reserved")
    \/ Returning(t, "release_reservation", "released")
    \/ Returning(t, "adjust_inventory", "adjusted")

(* C26, as stated: every successful reserve_items, release_reservation and
   adjust_inventory has appended an audit entry when it returns *)
C26_EveryMutationAudited ==
    \A t \in Threads :
        Succeeded(t) => Len(adjustment_log) = Len(pre[t].adjustment_log) + 1

(* C26, amended: a successful adjust_inventory has appended exactly one audit
   entry, of the item, its old and new stock, the delta and the reason, when
   it returns; a successful reserve_items or release_reservation has left the
   audit log as it found it *)
C26_OnlyAdjustAudited ==
    \A t \in Threads :
        /\ Returning(t, "adjust_inventory", "adjusted") =>
              LET i == arg[t].item_id
                  old == pre[t].inventory[i].stock
                  n == Len(pre[t].adjustment_log)
              IN /\ Len(adjustment_log) = n + 1
                 /\ SubSeq(adjustment_log, 1, n) = pre[t].adjustment_log
                 /\ adjustment_log[n + 1].item_id = i
                 /\ adjustment_log[n + 1].old_stock = old
                 /\ adjustment_log[n + 1].new_stock = old + arg[t].adjustment
                 /\ adjustment_log[n + 1].adjustment = arg[t].adjustment
                 /\ adjustment_log[n + 1].reason = arg[t].reason
                 /\ adjustment_log[n + 1].timestamp <= now
        /\ ( \/ Returning(t, "reserve_items", "reserved")
             \/ Returning(t, "release_reservation", "released") )
           => adjustment_log = pre[t].adjustment_log

\* a second adjustment returns with its entry appended, a reservation having
\* been made, without an entry, since the first
C26_Witness ==
    \E t \in Threads :
        /\ Returning(t, "adjust_inventory", "adjusted")
        /\ Len(pre[t].adjustment_log) = 1
        /\ reservations # EmptyDict

\* sequence p is a prefix of sequence q
IsPrefix(p, q) ==
    /\ Len(p) <= Len(q)
    /\ \A k \in 1..Len(p) : p[k] = q[k]

(* C27: the audit log is append-only: every step leaves the log it found as a
   prefix of the log it leaves, so the log of any earlier state is a prefix of
   the log of every later one *)
C27_LogAppendOnly ==
    [][IsPrefix(adjustment_log, adjustment_log')]_vars

\* three adjustments have been logged, in the order they were made
C27_Witness ==
    /\ Len(adjustment_log) = 3
    /\ Quiescent

(* C28: when a release_reservation(order_id) returns success, still inside the
   lock it took, every item's reserved is what the call found less the
   quantity the reservation recorded for the item, stock and the audit log are
   as found, the reservation record of order_id is gone and every other record
   kept, and the result counts the items the record held; and an order id
   without a live reservation, as order_id is from then on, makes
   release_reservation return NotFound and does not make reserve_items refuse
   the order as a duplicate *)
C28_ReleaseDeletesReservation ==
    \A t \in Threads :
        /\ Returning(t, "release_reservation", "released") =>
              LET o == arg[t].order_id
              IN /\ lock.owner = t
                 /\ Has(pre[t].reservations, o)
                 /\ \A i \in Items :
                       /\ inventory[i].reserved =
                             pre[t].inventory[i].reserved
                                - SumSeq(pre[t].reservations[o].items, i)
                       /\ inventory[i].stock = pre[t].inventory[i].stock
                 /\ adjustment_log = pre[t].adjustment_log
                 /\ reservations = DictDel(pre[t].reservations, o)
                 /\ ~Has(reservations, o)
                 /\ result[t].items_released = Len(pre[t].reservations[o].items)
        /\ (pc[t] = "return" /\ arg[t].op = "release_reservation"
              /\ ~Has(pre[t].reservations, arg[t].order_id))
           => result[t].kind = "reservation_not_found"
        /\ (pc[t] = "return" /\ arg[t].op = "reserve_items"
              /\ ~Has(pre[t].reservations, arg[t].order_id))
           => result[t].kind # "duplicate"

\* the release of a reservation of two items returns, another reservation
\* being live
C28_Witness ==
    \E t \in Threads :
        /\ Returning(t, "release_reservation", "released")
        /\ result[t].items_released = 2
        /\ reservations # EmptyDict

\* the snapshot m shows item i as the ledger has it
ShowsLive(m, i) ==
    /\ m.item_id = i
    /\ m.stock = inventory[i].stock
    /\ m.reserved = inventory[i].reserved
    /\ m.available = inventory[i].stock - inventory[i].reserved

\* the last snapshot get_item stored under key k is still there and its TTL
\* has not elapsed: no mutation has invalidated it and now <= stored + ItemTTL
Fresh(k) == Live(written, k) /\ now <= written[k].at + ItemTTL

(* C29: get_item is a read-through cache. Its cache lookup is a hit exactly
   when a snapshot stored for the id has not been invalidated by a mutation of
   the item since and its TTL of ItemTTL seconds has not elapsed, and the hit
   returns that snapshot; otherwise the lookup is a miss and, for a known id,
   get_item builds the snapshot from the live item under the lock, with
   available = stock - reserved, stores it in the cache with the TTL and
   returns it *)
C29_ReadThrough ==
    [][ \A t \in Threads :
          LET k == Key(arg[t].item_id)
          IN /\ (pc[t] = "gi_cache_get" /\ pc'[t] # "gi_cache_get") =>
                   IF Fresh(k)
                   THEN /\ pc'[t] = "return"
                        /\ result'[t] = [kind |-> "item", item |-> written[k].value,
                                         cached |-> TRUE]
                        /\ hits' = hits + 1
                   ELSE /\ pc'[t] = "gi_lock"
                        /\ misses' = misses + 1
                        /\ ~Has(cache', k)
             /\ (pc[t] = "gi_read" /\ pc'[t] = "gi_cache_set") =>
                   /\ arg[t].item_id \in Items
                   /\ ShowsLive(result'[t].item, arg[t].item_id)
                   /\ result'[t].item.last_checked = now
             /\ (pc[t] = "gi_cache_set" /\ pc'[t] = "return") =>
                   /\ lock.owner = t
                   /\ ShowsLive(result[t].item, arg[t].item_id)
                   /\ result'[t] = result[t]
                   /\ Has(cache', k) /\ Has(expiry', k)
                   /\ cache'[k] = result[t].item
                   /\ expiry'[k] = now + ItemTTL
                   /\ Fresh(k)'
    ]_vars

\* after a miss and a hit, the TTL has elapsed and a third get_item of the
\* item has missed and returns the snapshot it built anew
C29_Witness ==
    \E t \in Threads :
        /\ Returning(t, "get_item", "item")
        /\ ~result[t].cached
        /\ hits = 1
        /\ misses = 2
        /\ result[t].item.last_checked > ItemTTL

\* the operations that only read the ledger
Readers == {"get_item", "check_availability", "get_low_stock_items"}

\* this step is a step of thread t
Acts(t) ==
    <<pc[t], arg[t], idx[t], details[t], result[t], pre[t]>>'
        # <<pc[t], arg[t], idx[t], details[t], result[t], pre[t]>>

(* C30: read operations never change authoritative state: every step of a
   get_item, check_availability or get_low_stock_items, from its call to its
   return, leaves every item's stock and reserved, the reservations and the
   audit log as they were, and every step that changes any of them is a step
   of a reserve_items, release_reservation or adjust_inventory holding the
   ledger lock *)
C30_ReadsChangeNothing ==
    [][ /\ \A t \in Threads :
             (Acts(t) /\ arg'[t].op \in Readers) => ledgerVars' = ledgerVars
        /\ ledgerVars' # ledgerVars =>
             \E t \in Threads :
                 /\ Acts(t)
                 /\ lock.owner = t
                 /\ arg[t].op \in Mutators
                 /\ arg'[t] = arg[t]
    ]_vars

\* a read returns what it found in a ledger that an adjustment and a
\* reservation have changed
C30_Witness ==
    \E t \in Threads :
        /\ Returning(t, "get_low_stock_items", "list")
        /\ adjustment_log # << >>
        /\ reservations # EmptyDict
        /\ LedgerKeptSince(t)

\* the statements of a direct cache call inside the cache's `with self.lock`
CachePcs == {"c_get_test", "c_get_evict", "c_get_miss", "c_get_miss_store",
             "c_get_hit", "c_get_hit_store", "c_set_value", "c_set_expiry",
             "c_delete", "c_clear", "c_status", "c_unlock"}

(* C21: under fair scheduling every ledger or cache operation a thread has
   called returns, whatever the other thread is doing; no thread that holds
   the cache lock is asking for the ledger lock *)
C21_EveryCallReturns ==
    /\ [](\A t \in Threads : cache_lock = t => pc[t] \in CachePcs)
    /\ \A t \in Threads : (pc[t] # "idle") ~> (pc[t] = "idle")

\* a thread waits for the ledger lock while the other, inside reserve_items,
\* holds it and is about to enter it again for check_availability
C21_Witness ==
    \E t, u \in Threads :
        /\ pc[t] = "lock_wait"
        /\ pc[u] = "res_validate"
        /\ lock.owner = u
        /\ idx[u] <= Len(arg[u].items)

\* the direct get calls that have counted and not yet returned
CountedGets == {t \in Threads : pc[t] = "c_unlock" /\ arg[t].op = "cache.get"}

(* C23: the operations of the cache exclude each other: only the thread that
   holds the cache lock is inside a cache operation; when a get leaves the
   lock it has added one to exactly one of hits and misses as it found them,
   and any other operation has left both as it found them; hits + misses is
   at every moment the number of get calls that have completed or have
   counted and are about to return *)
C23_CacheCallsExclusive ==
    /\ \A t \in Threads : pc[t] \in CachePcs => cache_lock = t
    /\ Cardinality({t \in Threads : pc[t] \in CachePcs}) <= 1
    /\ \A t \in Threads :
          pc[t] = "c_unlock" =>
             IF arg[t].op = "cache.get"
             THEN \/ hits = pre[t].hits + 1 /\ misses = pre[t].misses
                  \/ hits = pre[t].hits /\ misses = pre[t].misses + 1
             ELSE hits = pre[t].hits /\ misses = pre[t].misses
    /\ hits + misses = gets + Cardinality(CountedGets)

\* a get has read the counter it is about to write while the other thread's
\* get waits for the cache lock
C23_Witness ==
    \E t, u \in Threads :
        /\ pc[t] \in {"c_get_miss_store", "c_get_hit_store"}
        /\ pc[u] = "c_wait"
        /\ arg[u].op = "cache.get"

(* C31: expiry is lazy: a step in which only time passes leaves every entry in
   place; an entry leaves the cache only by a get of its key that finds it
   expired, by a delete of its key or by a clear; so an entry that was set
   and not since removed in one of these ways is resident, expired or not,
   and get_status counts it *)
C31_LazyExpiry ==
    /\ [](\A k \in CacheKeys : Live(written, k) <=> Has(cache, k))
    /\ [][/\ now' # now => cache' = cache /\ expiry' = expiry
          /\ \A k \in CacheKeys :
                Has(cache, k) /\ ~Has(cache', k) =>
                    \E t \in Threads :
                        /\ calls' = calls + 1
                        /\ \/ arg'[t] = [op |-> "cache.get", key |-> k] /\ Expired(k)
                           \/ arg'[t] = [op |-> "cache.delete", key |-> k]
                           \/ arg'[t] = [op |-> "cache.clear"]
          /\ \A t \in Threads :
                calls' = calls + 1 /\ arg'[t].op = "cache.get_status" =>
                    result'[t].entries = Cardinality({k \in CacheKeys : Live(written, k)})]_vars

\* get_status counts an entry whose ttl ran out and that no get has found since
C31_Witness ==
    \E t \in Threads :
        /\ arg[t].op = "cache.get_status"
        /\ result[t].entries > 0
        /\ \E k \in CacheKeys :
              /\ Live(pre[t].written, k)
              /\ pre[t].now > pre[t].written[k].at + pre[t].written[k].ttl
              /\ Has(cache, k) /\ Expired(k)

(* C32: whenever no thread holds the ledger lock, every entry of the cache,
   expired or not, shows the stock and the reserved quantity its item has in
   the ledger at that moment *)
C32_CacheCoherent ==
    lock.owner = NoThread =>
        \A i \in Items :
            Has(cache, Key(i)) =>
                /\ cache[Key(i)].stock = inventory[i].stock
                /\ cache[Key(i)].reserved = inventory[i].reserved

\* the lock is free while a reader is between its cache miss and the lock, and
\* the cache holds an entry that was written after a mutation of its item
C32_Witness ==
    /\ lock.owner = NoThread
    /\ \E t \in Threads : pc[t] = "gi_lock"
    /\ \E i \in Items :
          /\ Has(cache, Key(i))
          /\ cache[Key(i)].reserved # SeedInventory[i].reserved
          /\ cache[Key(i)].reserved = inventory[i].reserved

(* C33: a caller never sees a reservation of several items, or its release,
   half-applied: when a get_item has returned to a caller the reserved
   quantity that such an operation gave one of its items (a quantity the item
   never had before it), every get_item the caller makes afterwards for
   another item of the operation returns the quantity the operation left that
   item with, or one it got later *)
C33_NoHalfAppliedRead ==
    \A t \in Threads :
        \A p \in DOMAIN seen[t], q \in DOMAIN seen[t], n \in 2..Len(applied) :
            LET a == seen[t][p][1]
                b == seen[t][q][1]
            IN (/\ p < q
                /\ a # b
                /\ applied[n][a] # applied[n - 1][a]
                /\ applied[n][b] # applied[n - 1][b]
                /\ seen[t][p][2] = applied[n][a]
                /\ \A m \in 1..(n - 1) : applied[m][a] # seen[t][p][2])
               => \E j \in n..Len(applied) : seen[t][q][2] = applied[j][b]

\* a caller has seen what the release of a two-item reservation left of one
\* item, and then what it left of the other
C33_Witness ==
    \E t \in Threads :
        \E p \in DOMAIN seen[t], q \in DOMAIN seen[t], n \in 2..Len(applied) :
            LET a == seen[t][p][1]
                b == seen[t][q][1]
            IN /\ p < q
               /\ a # b
               /\ applied[n][a] < applied[n - 1][a]
               /\ applied[n][b] < applied[n - 1][b]
               /\ seen[t][p][2] = applied[n][a]
               /\ \A m \in 1..(n - 1) : applied[m][a] # seen[t][p][2]
               /\ seen[t][q][2] = applied[n][b]

(* C34: the mutators change only their own fields: no step of a reserve_items
   or a release_reservation changes the stock of any item or the audit log,
   and no step of an adjust_inventory changes the reserved quantity of any
   item, the stock of an item other than the one adjusted, or the
   reservations *)
C34_MutatorsKeepToTheirFields ==
    [][\A t \in Threads :
          Acts(t) =>
              /\ (\/ arg[t].op \in {"reserve_items", "release_reservation"}
                  \/ arg'[t].op \in {"reserve_items", "release_reservation"})
                 => /\ \A i \in Items : inventory'[i].stock = inventory[i].stock
                    /\ adjustment_log' = adjustment_log
              /\ (arg[t].op = "adjust_inventory" \/ arg'[t].op = "adjust_inventory")
                 => /\ \A i \in Items : inventory'[i].reserved = inventory[i].reserved
                    /\ \A i \in Items :
                          (arg[t].op = "adjust_inventory" /\ i # arg[t].item_id)
                              => inventory'[i].stock = inventory[i].stock
                    /\ arg[t].op # "adjust_inventory" => inventory' = inventory
                    /\ reservations' = reservations
    ]_vars

\* a release has lowered the reserved quantity of two items whose stock an
\* adjustment had changed before
C34_Witness ==
    \E t \in Threads :
        /\ Returning(t, "release_reservation", "released")
        /\ adjustment_log # << >>
        /\ \E i \in Items, j \in Items :
              /\ i # j
              /\ inventory[i].reserved < pre[t].inventory[i].reserved
              /\ inventory[j].reserved < pre[t].inventory[j].reserved
              /\ inventory[i].stock # SeedInventory[i].stock

\* the entries before entry k of the audit log that are of the same item
EarlierOfItem(k) ==
    {j \in 1..(k - 1) : adjustment_log[j].item_id = adjustment_log[k].item_id}

\* the largest member of a non-empty set of numbers
Latest(S) == CHOOSE j \in S : \A m \in S : m <= j

\* this step makes an adjust_inventory succeed
AdjustSucceeds(t) == result'[t].kind = "adjusted" /\ result[t].kind # "adjusted"

(* C35: the audit log is consistent with the stock: every entry has
   new_stock = old_stock + adjustment and new_stock >= 0; its old_stock is the
   new_stock of the entry before it of the same item, or the seeded stock
   when it is the item's first; the new_stock of an item's latest entry is
   the item's stock; and the log gets one entry with every adjust_inventory
   that succeeds and none otherwise, so it has as many entries as there were
   successful adjustments *)
C35_AuditLogConsistent ==
    /\ [](/\ \A k \in 1..Len(adjustment_log) :
               LET e == adjustment_log[k]
               IN /\ e.new_stock = e.old_stock + e.adjustment
                  /\ e.new_stock >= 0
                  /\ e.old_stock =
                        IF EarlierOfItem(k) = {} THEN SeedInventory[e.item_id].stock
                        ELSE adjustment_log[Latest(EarlierOfItem(k))].new_stock
           /\ \A i \in Items :
               LET of == {m \in 1..Len(adjustment_log) : adjustment_log[m].item_id = i}
               IN IF of = {} THEN inventory[i].stock = SeedInventory[i].stock
                  ELSE inventory[i].stock = adjustment_log[Latest(of)].new_stock)
    /\ [][IF \E t \in Threads : AdjustSucceeds(t)
          THEN Len(adjustment_log') = Len(adjustment_log) + 1
          ELSE adjustment_log' = adjustment_log]_vars

\* the log holds two entries of one item, the second starting from the stock
\* the first left, and an entry of another item between or around them
C35_Witness ==
    /\ Len(adjustment_log) = 3
    /\ \E j \in 1..3, k \in 1..3 :
          /\ j < k
          /\ adjustment_log[j].item_id = adjustment_log[k].item_id
          /\ adjustment_log[k].old_stock = adjustment_log[j].new_stock
          /\ adjustment_log[k].old_stock # SeedInventory[adjustment_log[k].item_id].stock
    /\ \E j \in 1..3, k \in 1..3 : adjustment_log[j].item_id # adjustment_log[k].item_id

(* C36: whatever quantities its pairs carry, zero and negative ones included,
   a reserve_items that succeeds leaves no item with a smaller reserved
   quantity (nor a larger available one) than it found *)
C36_ReserveNeverLowersReserved ==
    \A t \in Threads :
        Returning(t, "reserve_items", "reserved") =>
            \A i \in Items :
                /\ inventory[i].reserved >= pre[t].inventory[i].reserved
                /\ Available(i) <= pre[t].inventory[i].stock - pre[t].inventory[i].reserved

(* C37: reserve_items(order_id, []) for an order that has no reservation
   succeeds with a count of 0, leaves every item's reserved quantity and
   every cache entry as they were, and records a reservation without items;
   while that reservation is there a reserve_items of the same order is
   refused as a duplicate, and it is there until a release_reservation of the
   order removes it *)
C37_EmptyReservationIsLive ==
    /\ [](\A t \in Threads :
             (pc[t] = "return" /\ arg[t].op = "reserve_items") =>
                 LET o == arg[t].order_id
                 IN /\ (arg[t].items = << >> /\ ~Has(pre[t].reservations, o)) =>
                          /\ result[t].kind = "reserved"
                          /\ result[t].items_reserved = 0
                          /\ inventory = pre[t].inventory
                          /\ CacheKeptSince(t)
                          /\ Has(reservations, o)
                          /\ reservations[o].items = << >>
                    /\ (Has(pre[t].reservations, o)
                           /\ pre[t].reservations[o].items = << >>) =>
                          /\ result[t].kind = "duplicate"
                          /\ LedgerKeptSince(t))
    /\ [][\A o \in Orders :
              (Has(reservations, o) /\ reservations[o].items = << >>) =>
                  \/ (Has(reservations', o) /\ reservations'[o] = reservations[o])
                  \/ \E t \in Threads :
                        /\ Acts(t)
                        /\ arg[t] = [op |-> "release_reservation", order_id |-> o]
                        /\ result'[t].kind = "released"
                        /\ ~Has(reservations', o)]_vars

\* a reserve_items of an order is refused because of the empty reservation
\* that an earlier reserve_items of the order recorded
C37_Witness ==
    \E t \in Threads :
        /\ Returning(t, "reserve_items", "duplicate")
        /\ arg[t].items # << >>
        /\ Has(reservations, arg[t].order_id)
        /\ reservations[arg[t].order_id].items = << >>

\* this step is a step of thread t in a call of refund_transaction
RefundStep(t) ==
    /\ pc'[t] # pc[t]
    /\ arg[t].op = "refund_transaction"

(* C38: a transaction is refunded at most once: refund_transaction answers
   'refunded' only for the id of a processed transaction that was not yet
   refunded, so never twice for one id; for an id already refunded it answers
   failed with ALREADY_REFUNDED and for an unknown id failed with
   TRANSACTION_NOT_FOUND, and such a call changes nothing; the refunded ids
   are always ids of processed transactions *)
C38_RefundedAtMostOnce ==
    /\ [](/\ \A id \in DOMAIN refunds : refunds[id] <= 1
          /\ refunded_transactions \subseteq DOMAIN processed_transactions
          /\ \A t \in Threads :
                (pc[t] = "return" /\ arg[t].op = "refund_transaction") =>
                    LET id == arg[t].transaction_id
                    IN /\ result[t].kind \in {"refunded", "failed"}
                       /\ result[t].kind = "refunded" =>
                             /\ result[t].transaction_id = id
                             /\ id \in DOMAIN processed_transactions
                             /\ id \in refunded_transactions
                             /\ result[t].refund_amount = processed_transactions[id].amount
                       /\ result[t].kind = "failed" =>
                             result[t].code =
                                 IF Has(processed_transactions, id)
                                 THEN "ALREADY_REFUNDED" ELSE "TRANSACTION_NOT_FOUND")
    /\ [][\A t \in Threads :
             RefundStep(t) =>
                 /\ processed_transactions' = processed_transactions
                 /\ IF pc[t] = "rf_body"
                       /\ Has(processed_transactions, arg[t].transaction_id)
                       /\ arg[t].transaction_id \notin refunded_transactions
                    THEN /\ refunded_transactions' =
                               refunded_transactions \cup {arg[t].transaction_id}
                         /\ result'[t].kind = "refunding"
                    ELSE /\ refunded_transactions' = refunded_transactions
                         /\ pc[t] = "rf_body" =>
                               result'[t] =
                                   Failed(IF Has(processed_transactions, arg[t].transaction_id)
                                          THEN "ALREADY_REFUNDED"
                                          ELSE "TRANSACTION_NOT_FOUND")]_vars

\* a second refund of a transaction is refused while the first, made by the
\* other thread, has added the id and not yet returned
C38_Witness ==
    \E t \in Threads, u \in Threads :
        /\ t # u
        /\ pc[t] = "return" /\ arg[t].op = "refund_transaction"
        /\ result[t] = Failed("ALREADY_REFUNDED")
        /\ pc[u] = "rf_result" /\ arg[u] = arg[t]
        /\ refunds[arg[t].transaction_id] = 1

====
